---- MODULE Spec2Model ----
(***************************************************************************)
(* biscuit-forge: relationship resolution (dblogic) and the authorization  *)
(* decision handed to the biscuit Datalog evaluator (authz), driven by     *)
(* main.  The store is the SQLite database of dblogic/db-init.sql; a       *)
(* decision request is GatherRequestDetails followed by IssueToken,        *)
(* AttenuateBiscuit and CheckAuthz.                                        *)
(***************************************************************************)
EXTENDS Integers, Sequences, FiniteSets, TLC

VARIABLES
    store,        \* the committed content of the SQLite database
    snapshot,     \* the content the open read transaction sees
    seenStores,   \* every committed content since the request began
    txState,      \* "none" | "open" | "committed" | "rolledback"
    txEnds,       \* number of Commit/Rollback calls made on the transaction
    pc,           \* position of the request in main / GatherRequestDetails
    req,          \* arguments of the request: userId, reponame
    loc,          \* locals of GatherRequestDetails and of the SQL engine
    lookups,      \* the queries issued on the transaction, in order
    gatherRet,    \* what GatherRequestDetails returned: details, err
    token,        \* the biscuit handed to CheckAuthz
    call,         \* arguments of the CheckAuthz call: operation, publicRoot, now
    authzRet,     \* what CheckAuthz returned: ret, err, or a fatal exit
    writes        \* number of writes concurrent writers have committed

vars == <<store, snapshot, seenStores, txState, txEnds, pc, req, loc, lookups,
          gatherRet, token, call, authzRet, writes>>

(***************************************************************************)
(* Bounds of the model.                                                    *)
(***************************************************************************)
\* largest number of relationship rows of a store drawn by Init
MaxRows == 4
\* largest number of writes committed by concurrent writers during a request
MaxWrites == 1
\* largest number of list entries of a RequestDetails handed directly to CheckAuthz
MaxFacts == 3
\* largest number of nesting edges of a store drawn for the closure query alone
MaxEdges == 4

Nil == "nil"

(***************************************************************************)
(* Text.  Datalog terms are character sequences so that namespacing and    *)
(* starts_with are computed the way fmt.Sprintf and the evaluator do.      *)
(***************************************************************************)
membershipStr == <<"m", "e", "m", "b", "e", "r", "s", "h", "i", "p">>
writeStr == <<"w", "r", "i", "t", "e">>
readStr == <<"r", "e", "a", "d">>
ownerRoleStr == <<"o", "w", "n", "e", "r">>
writerRoleStr == <<"w", "r", "i", "t", "e", "r">>
readerRoleStr == <<"r", "e", "a", "d", "e", "r">>

roleNS == <<"r", "o", "l", "e">>
actionNS == <<"a", "c", "t", "i", "o", "n">>
userNS == <<"u", "s", "e", "r", "i", "d">>
usergroupNS == <<"u", "s", "e", "r", "g", "r", "o", "u", "p", "i", "d">>
repoNS == <<"r", "e", "p", "o">>
repogroupNS == <<"r", "e", "p", "o", "g", "r", "o", "u", "p", "i", "d">>

Digit(d) == <<"0", "1", "2", "3", "4", "5", "6", "7", "8", "9">>[d + 1]

RECURSIVE FormatNat(_)
FormatNat(n) ==
    IF n < 10 THEN <<Digit(n)>> ELSE FormatNat(n \div 10) \o <<Digit(n % 10)>>

\* fmt.Sprintf("%d", symbol)
FormatInt(n) == IF n < 0 THEN <<"-">> \o FormatNat(0 - n) ELSE FormatNat(n)

\* the Datalog method $s.starts_with(prefix)
StartsWith(s, prefix) ==
    /\ Len(s) >= Len(prefix)
    /\ SubSeq(s, 1, Len(prefix)) = prefix

namespaceAuthz(symbol, namespace) == namespace \o <<":">> \o symbol
namespaceRole(symbol) == namespaceAuthz(symbol, roleNS)
namespaceUser(symbol) == namespaceAuthz(FormatInt(symbol), userNS)
namespaceRepo(symbol) == namespaceAuthz(FormatInt(symbol), repoNS)
namespaceAction(symbol) == namespaceAuthz(symbol, actionNS)
\* variant of namespaceUG that puts usergroup ids in the namespace of users
namespaceUGAsUser(symbol) == namespaceAuthz(FormatInt(symbol), userNS)
namespaceUG(symbol) == namespaceAuthz(FormatInt(symbol), usergroupNS)
namespaceRG(symbol) == namespaceAuthz(FormatInt(symbol), repogroupNS)

\* the list literal of repo_role_actions: the set of namespaced actions
buildRoleActions(actions) ==
    {namespaceAuthz(actions[i], actionNS) : i \in 1..Len(actions)}

(***************************************************************************)
(* Sequences from sets: rows come back from SQLite in one fixed order.     *)
(***************************************************************************)
RECURSIVE SeqOf(_)
SeqOf(S) ==
    IF S = {} THEN <<>>
    ELSE LET x == CHOOSE y \in S : TRUE IN <<x>> \o SeqOf(S \ {x})

Range(s) == {s[i] : i \in 1..Len(s)}

(***************************************************************************)
(* Enumerations of dblogic and authz.                                      *)
(***************************************************************************)
UnknownRole == 0
OwnerRole == 1
ReaderRole == 2
WriterRole == 3

UndefUGR == 0
UserUGR == 1
UsergroupUGR == 2

UndefRGR == 0
RepoUGR == 1
RepogroupUGR == 2

Membership == 0
Read == 1
Write == 2

(***************************************************************************)
(* The store: the tables of dblogic/db-init.sql that the queries read.     *)
(* A row is the tuple of its columns without the surrogate id.             *)
(***************************************************************************)
repo_roles_enum == {[id |-> 1, rolename |-> "reader"],
                    [id |-> 2, rolename |-> "writer"],
                    [id |-> 3, rolename |-> "owner"]}

repogroup_roles_enum == {[id |-> 1, rolename |-> "reader"],
                         [id |-> 2, rolename |-> "writer"]}

Users == {[id |-> 1, username |-> "Olivia"], [id |-> 2, username |-> "Noah"],
          [id |-> 3, username |-> "Emma"], [id |-> 4, username |-> "Liam"],
          [id |-> 5, username |-> "Tony"]}

Repos == {[id |-> 1, reponame |-> "Alpha"], [id |-> 2, reponame |-> "Bravo"],
          [id |-> 3, reponame |-> "Charlie"]}

\* the database right after InitDb: schema and example rows
ExampleStore ==
    [Users |-> Users,
     Repos |-> Repos,
     UserGroup_membership_users |->
         {[usergroup_id |-> 1, user_id |-> 4],
          [usergroup_id |-> 1, user_id |-> 3],
          [usergroup_id |-> 3, user_id |-> 5]},
     UserGroup_membership_usergroups |->
         {[usergroup_id |-> 1, child_usergroup_id |-> 2],
          [usergroup_id |-> 2, child_usergroup_id |-> 3]},
     RepoGroup_membership |->
         {[repogroup_id |-> 1, repo_id |-> 2],
          [repogroup_id |-> 1, repo_id |-> 3]},
     Repo_Roles_membership_Users |->
         {[repo_id |-> 3, user_id |-> 1, repo_role |-> 3],
          [repo_id |-> 3, user_id |-> 2, repo_role |-> 1]},
     Repo_Roles_membership_UserGroups |-> {},
     RepoGroup_Roles_membership_Users |-> {},
     RepoGroup_Roles_membership_Usergroup |->
         {[repogroup_id |-> 1, usergroup_id |-> 1, repogroup_role |-> 2]},
     repo_roles_enum |-> repo_roles_enum,
     repogroup_roles_enum |-> repogroup_roles_enum]

\* the schema and the entity tables of InitDb with no relationship row
EmptyStore ==
    [ExampleStore EXCEPT !.UserGroup_membership_users = {},
                         !.UserGroup_membership_usergroups = {},
                         !.RepoGroup_membership = {},
                         !.Repo_Roles_membership_Users = {},
                         !.RepoGroup_Roles_membership_Usergroup = {}]

(***************************************************************************)
(* Rows from which Init draws stores and a writer takes the rows it        *)
(* inserts or deletes.  A row names its table; InsertRow and DeleteRow are *)
(* the INSERT and DELETE statements.                                       *)
(***************************************************************************)
RowPool ==
    {[tbl |-> "UserGroup_membership_users", row |-> [usergroup_id |-> 1, user_id |-> 4]],
     [tbl |-> "UserGroup_membership_users", row |-> [usergroup_id |-> 2, user_id |-> 1]],
     [tbl |-> "UserGroup_membership_usergroups", row |-> [usergroup_id |-> 1, child_usergroup_id |-> 2]],
     [tbl |-> "UserGroup_membership_usergroups", row |-> [usergroup_id |-> 2, child_usergroup_id |-> 3]],
     [tbl |-> "UserGroup_membership_usergroups", row |-> [usergroup_id |-> 2, child_usergroup_id |-> 1]],
     [tbl |-> "RepoGroup_membership", row |-> [repogroup_id |-> 1, repo_id |-> 2]],
     [tbl |-> "Repo_Roles_membership_Users", row |-> [repo_id |-> 3, user_id |-> 1, repo_role |-> 3]],
     [tbl |-> "Repo_Roles_membership_Users", row |-> [repo_id |-> 2, user_id |-> 4, repo_role |-> 1]],
     [tbl |-> "Repo_Roles_membership_UserGroups", row |-> [repo_id |-> 2, usergroup_id |-> 2, repo_role |-> 2]],
     [tbl |-> "Repo_Roles_membership_UserGroups", row |-> [repo_id |-> 3, usergroup_id |-> 3, repo_role |-> 3]],
     [tbl |-> "RepoGroup_Roles_membership_Users", row |-> [repogroup_id |-> 1, user_id |-> 4, repogroup_role |-> 1]],
     [tbl |-> "RepoGroup_Roles_membership_Users", row |-> [repogroup_id |-> 1, user_id |-> 1, repogroup_role |-> 3]],
     [tbl |-> "RepoGroup_Roles_membership_Usergroup", row |-> [repogroup_id |-> 1, usergroup_id |-> 1, repogroup_role |-> 2]],
     [tbl |-> "RepoGroup_Roles_membership_Usergroup", row |-> [repogroup_id |-> 1, usergroup_id |-> 3, repogroup_role |-> 1]],
     [tbl |-> "RepoGroup_Roles_membership_Usergroup", row |-> [repogroup_id |-> 1, usergroup_id |-> 2, repogroup_role |-> 3]],
     [tbl |-> "repogroup_roles_enum", row |-> [id |-> 3, rolename |-> "owner"]]}

InsertRow(db, r) == [db EXCEPT ![r.tbl] = @ \cup {r.row}]
DeleteRow(db, r) == [db EXCEPT ![r.tbl] = @ \ {r.row}]

RECURSIVE InsertRows(_, _)
InsertRows(db, rows) ==
    IF rows = {} THEN db
    ELSE LET r == CHOOSE x \in rows : TRUE
         IN InsertRows(InsertRow(db, r), rows \ {r})

\* REFERENCES repo_roles_enum (id) / repogroup_roles_enum (id): every role
\* column names a row of its enum table
ForeignKeysHold(db) ==
    /\ \A r \in db.Repo_Roles_membership_Users :
           \E e \in db.repo_roles_enum : e.id = r.repo_role
    /\ \A r \in db.Repo_Roles_membership_UserGroups :
           \E e \in db.repo_roles_enum : e.id = r.repo_role
    /\ \A r \in db.RepoGroup_Roles_membership_Users :
           \E e \in db.repogroup_roles_enum : e.id = r.repogroup_role
    /\ \A r \in db.RepoGroup_Roles_membership_Usergroup :
           \E e \in db.repogroup_roles_enum : e.id = r.repogroup_role

(***************************************************************************)
(* dblogic: role decoding and the single-row and single-table lookups.     *)
(***************************************************************************)
\* variant of repoRoleStrToEnum that forgets the repogroup restriction
repoRoleStrToEnumAnyOwner(repoRoleStr, isRepogroup) ==
    CASE repoRoleStr = "owner" -> [role |-> OwnerRole, err |-> Nil]
      [] repoRoleStr = "reader" -> [role |-> ReaderRole, err |-> Nil]
      [] repoRoleStr = "writer" -> [role |-> WriterRole, err |-> Nil]
      [] OTHER -> [role |-> UnknownRole, err |-> "unable to convert"]

\* variant of repoRoleStrToEnum that decodes the reader label as the owner role
repoRoleStrToEnumReaderAsOwner(repoRoleStr, isRepogroup) ==
    CASE repoRoleStr = "owner" ->
             IF isRepogroup
             THEN [role |-> UnknownRole, err |-> "repogroups cannot have owner roles"]
             ELSE [role |-> OwnerRole, err |-> Nil]
      [] repoRoleStr = "reader" -> [role |-> OwnerRole, err |-> Nil]
      [] repoRoleStr = "writer" -> [role |-> WriterRole, err |-> Nil]
      [] OTHER -> [role |-> UnknownRole, err |-> "unable to convert"]

repoRoleStrToEnum(repoRoleStr, isRepogroup) ==
    CASE repoRoleStr = "owner" ->
             IF isRepogroup
             THEN [role |-> UnknownRole, err |-> "repogroups cannot have owner roles"]
             ELSE [role |-> OwnerRole, err |-> Nil]
      [] repoRoleStr = "reader" -> [role |-> ReaderRole, err |-> Nil]
      [] repoRoleStr = "writer" -> [role |-> WriterRole, err |-> Nil]
      [] OTHER -> [role |-> UnknownRole, err |-> "unable to convert"]

checkUserInDb(userId, db) ==
    LET rows == {u \in db.Users : u.id = userId}
    IN IF rows = {}
       THEN [username |-> "", err |-> "error querying for user from DB"]
       ELSE [username |-> (CHOOSE u \in rows : TRUE).username, err |-> Nil]

checkRepoInDb(reponame, db) ==
    LET rows == {r \in db.Repos : r.reponame = reponame}
    IN IF rows = {}
       THEN [repoId |-> 0, err |-> "error querying for repo from DB"]
       ELSE [repoId |-> (CHOOSE r \in rows : TRUE).id, err |-> Nil]

\* variant of getRepogroupRels that matches the repo id against repogroup_id
getRepogroupRelsByGroupColumn(repoId, db) ==
    SeqOf({[RepogroupId |-> m.repogroup_id, RepoId |-> repoId] :
              m \in {x \in db.RepoGroup_membership : x.repogroup_id = repoId}})

getRepogroupRels(repoId, db) ==
    SeqOf({[RepogroupId |-> m.repogroup_id, RepoId |-> repoId] :
              m \in {x \in db.RepoGroup_membership : x.repo_id = repoId}})

(***************************************************************************)
(* getUsergroupsRecursive: the recursive common table expression ugs, as   *)
(* SQLite evaluates it (a queue of rows, one row extracted at a time).     *)
(* A row is (usergroup_id, child_usergroup_id); valid is FALSE for NULL.   *)
(***************************************************************************)
\* the initial select: the user's direct memberships, child NULL
CteInitial(userId, db) ==
    {[usergroup_id |-> m.usergroup_id, child_usergroup_id |-> 0, valid |-> FALSE] :
        m \in {x \in db.UserGroup_membership_users : x.user_id = userId}}

\* variant of CteRecursive that also joins an edge on its child column
CteRecursiveEitherDirection(row, db) ==
    {[usergroup_id |-> e.usergroup_id,
      child_usergroup_id |-> e.child_usergroup_id,
      valid |-> TRUE] :
        e \in {x \in db.UserGroup_membership_usergroups :
                  \/ x.usergroup_id = row.usergroup_id
                  \/ x.child_usergroup_id = row.usergroup_id
                  \/ (row.valid /\ x.usergroup_id = row.child_usergroup_id)}}

\* variant of CteRecursive that yields no row for a group with several edges
CteRecursiveSingleEdge(row, db) ==
    LET edges == {x \in db.UserGroup_membership_usergroups :
                     \/ x.usergroup_id = row.usergroup_id
                     \/ (row.valid /\ x.usergroup_id = row.child_usergroup_id)}
    IN IF Cardinality(edges) > 1 THEN {}
       ELSE {[usergroup_id |-> e.usergroup_id,
              child_usergroup_id |-> e.child_usergroup_id,
              valid |-> TRUE] : e \in edges}

\* the recursive select run against the single extracted row
CteRecursive(row, db) ==
    {[usergroup_id |-> e.usergroup_id,
      child_usergroup_id |-> e.child_usergroup_id,
      valid |-> TRUE] :
        e \in {x \in db.UserGroup_membership_usergroups :
                  \/ x.usergroup_id = row.usergroup_id
                  \/ (row.valid /\ x.usergroup_id = row.child_usergroup_id)}}

\* variant of CteAdmit for UNION ALL: every produced row is queued again
CteAdmitAll(row, seenRows) == TRUE

\* UNION: a row is queued only if no identical row was queued before
CteAdmit(row, seenRows) == row \notin seenRows

\* the rows queued by one extraction
CteProduced(row, queue, table, db) ==
    SeqOf({r \in CteRecursive(row, db) :
              CteAdmit(r, Range(queue) \cup Range(table))})

RECURSIVE CteRun(_, _, _)
CteRun(queue, table, db) ==
    IF queue = <<>> THEN table
    ELSE CteRun(Tail(queue) \o CteProduced(Head(queue), queue, table, db),
                Append(table, Head(queue)), db)

\* variant of IsDirect that takes every row for a direct membership
IsDirectWhateverChild(row) == TRUE

IsNested(row) == row.valid
IsDirect(row) == ~row.valid

\* the scan loop over sqlRows
ScanUsergroupRows(userId, rows) ==
    LET direct == SelectSeq(rows, IsDirect)
        nested == SelectSeq(rows, IsNested)
    IN [UserInGroups |->
            [i \in 1..Len(direct) |->
                [UserId |-> userId, UsergroupId |-> direct[i].usergroup_id]],
        UserGroupInGroups |->
            [i \in 1..Len(nested) |->
                [ParentUsergroupId |-> nested[i].usergroup_id,
                 ChildUsergroupId |-> nested[i].child_usergroup_id]]]

getUsergroupsRecursive(userId, db) ==
    ScanUsergroupRows(userId, CteRun(SeqOf(CteInitial(userId, db)), <<>>, db))

(***************************************************************************)
(* getAssignedRoles: the four role lookups.  Each returns the decoded      *)
(* roles or the first error.                                               *)
(***************************************************************************)
\* variant of usergroupIds that takes only the direct memberships
usergroupIdsDirectOnly(usergroupRels) ==
    {usergroupRels.UserInGroups[i].UsergroupId :
        i \in 1..Len(usergroupRels.UserInGroups)}

\* the keys of the map usergroupIds
usergroupIds(usergroupRels) ==
    {usergroupRels.UserInGroups[i].UsergroupId :
        i \in 1..Len(usergroupRels.UserInGroups)}
    \cup {usergroupRels.UserGroupInGroups[i].ChildUsergroupId :
        i \in 1..Len(usergroupRels.UserGroupInGroups)}

\* the keys of the map repogroupIds
repogroupIds(repogroupRels) ==
    {repogroupRels[i].RepogroupId : i \in 1..Len(repogroupRels)}

\* variant of DecodeRows that appends the role whatever the decoding returned
DecodeRowsUnchecked(rows, isRepogroup) ==
    [roles |->
        [i \in 1..Len(rows) |->
            [UserOrGroup |-> rows[i].UserOrGroup,
             UserOrGroupID |-> rows[i].UserOrGroupID,
             RepoOrGroup |-> rows[i].RepoOrGroup,
             RepoOrGroupID |-> rows[i].RepoOrGroupID,
             RepoRole |-> repoRoleStrToEnum(rows[i].rolename, isRepogroup).role]],
     err |-> Nil]

\* the scan loop of a role lookup: decode every row, stop at the first error
DecodeRows(rows, isRepogroup) ==
    LET dec(i) == repoRoleStrToEnum(rows[i].rolename, isRepogroup)
    IN IF \E i \in 1..Len(rows) : dec(i).err # Nil
       THEN [roles |-> <<>>, err |-> "error when mapping db role to enum"]
       ELSE [roles |->
                [i \in 1..Len(rows) |->
                    [UserOrGroup |-> rows[i].UserOrGroup,
                     UserOrGroupID |-> rows[i].UserOrGroupID,
                     RepoOrGroup |-> rows[i].RepoOrGroup,
                     RepoOrGroupID |-> rows[i].RepoOrGroupID,
                     RepoRole |-> dec(i).role]],
             err |-> Nil]

getUserRepoRoles(userId, repoId, db) ==
    DecodeRows(
        SeqOf({[UserOrGroup |-> UserUGR, UserOrGroupID |-> userId,
                RepoOrGroup |-> RepoUGR, RepoOrGroupID |-> repoId,
                rolename |-> x[2].rolename] :
                 x \in {y \in db.Repo_Roles_membership_Users \X db.repo_roles_enum :
                           /\ y[2].id = y[1].repo_role
                           /\ y[1].repo_id = repoId
                           /\ y[1].user_id = userId}}),
        FALSE)

getUsergroupRepoRoles(repoId, ugIds, db) ==
    DecodeRows(
        SeqOf({[UserOrGroup |-> UsergroupUGR, UserOrGroupID |-> x[1].usergroup_id,
                RepoOrGroup |-> RepoUGR, RepoOrGroupID |-> repoId,
                rolename |-> x[2].rolename] :
                 x \in {y \in db.Repo_Roles_membership_UserGroups \X db.repo_roles_enum :
                           /\ y[2].id = y[1].repo_role
                           /\ y[1].repo_id = repoId
                           /\ y[1].usergroup_id \in ugIds}}),
        FALSE)

getUserRepogroupRoles(userId, rgIds, db) ==
    DecodeRows(
        SeqOf({[UserOrGroup |-> UserUGR, UserOrGroupID |-> userId,
                RepoOrGroup |-> RepogroupUGR, RepoOrGroupID |-> x[1].repogroup_id,
                rolename |-> x[2].rolename] :
                 x \in {y \in db.RepoGroup_Roles_membership_Users \X db.repogroup_roles_enum :
                           /\ y[2].id = y[1].repogroup_role
                           /\ y[1].user_id = userId
                           /\ y[1].repogroup_id \in rgIds}}),
        TRUE)

getUsergroupRepogroupRoles(ugIds, rgIds, db) ==
    DecodeRows(
        SeqOf({[UserOrGroup |-> UsergroupUGR, UserOrGroupID |-> x[1].usergroup_id,
                RepoOrGroup |-> RepogroupUGR, RepoOrGroupID |-> x[1].repogroup_id,
                rolename |-> x[2].rolename] :
                 x \in {y \in db.RepoGroup_Roles_membership_Usergroup \X db.repogroup_roles_enum :
                           /\ y[2].id = y[1].repogroup_role
                           /\ y[1].usergroup_id \in ugIds
                           /\ y[1].repogroup_id \in rgIds}}),
        TRUE)

getAssignedRoles(userId, repoId, usergroupRels, repogroupRels, db) ==
    LET ugIds == usergroupIds(usergroupRels)
        rgIds == repogroupIds(repogroupRels)
        q1 == getUserRepoRoles(userId, repoId, db)
        q2 == getUsergroupRepoRoles(repoId, ugIds, db)
        q3 == getUserRepogroupRoles(userId, rgIds, db)
        q4 == getUsergroupRepogroupRoles(ugIds, rgIds, db)
    IN CASE q1.err # Nil -> [roles |-> <<>>, err |-> q1.err]
         [] q2.err # Nil -> [roles |-> <<>>, err |-> q2.err]
         [] q3.err # Nil -> [roles |-> <<>>, err |-> q3.err]
         [] q4.err # Nil -> [roles |-> <<>>, err |-> q4.err]
         [] OTHER -> [roles |-> q1.roles \o q2.roles \o q3.roles \o q4.roles,
                      err |-> Nil]

(***************************************************************************)
(* GatherRequestDetails as a function of the content the transaction sees. *)
(***************************************************************************)
NoUsergroupRels == [UserInGroups |-> <<>>, UserGroupInGroups |-> <<>>]

NoDetails ==
    [UserId |-> 0, Username |-> "", UsergroupRelationships |-> NoUsergroupRels,
     RepoId |-> 0, RepoName |-> "", RepogroupRels |-> <<>>, AssignedRoles |-> <<>>]

\* return nil, err
GatherError(err) == [details |-> NoDetails, isNil |-> TRUE, err |-> err]

GatherRequestDetails(userId, reponame, db) ==
    LET user == checkUserInDb(userId, db)
        usergroupRels == getUsergroupsRecursive(userId, db)
        repo == checkRepoInDb(reponame, db)
        repogroupRels == getRepogroupRels(repo.repoId, db)
        assigned == getAssignedRoles(userId, repo.repoId, usergroupRels,
                                     repogroupRels, db)
    IN CASE user.err # Nil -> GatherError("error from checkUserInDb")
         [] repo.err # Nil -> GatherError("error from checkRepoInDb")
         [] assigned.err # Nil -> GatherError("error from getAssignedRoles")
         [] OTHER ->
              [details |->
                  [UserId |-> userId, Username |-> user.username,
                   UsergroupRelationships |-> usergroupRels,
                   RepoId |-> repo.repoId, RepoName |-> reponame,
                   RepogroupRels |-> repogroupRels,
                   AssignedRoles |-> assigned.roles],
               isNil |-> FALSE, err |-> Nil]

(***************************************************************************)
(* authz: tokens.  A biscuit is its authority facts user(...), the checks  *)
(* appended by attenuation, and the key that signed it.                    *)
(***************************************************************************)
\* the key pair of NewTokenIssuer, and a key pair of somebody else
IssuerKey == "issuerKey"
OtherKey == "otherKey"

\* fmt.Sprintf(`user("userid:%d");`, userId)
IssueToken(userId) ==
    [authority |-> {<<"u", "s", "e", "r", "i", "d", ":">> \o FormatInt(userId)},
     checks |-> {},
     signer |-> IssuerKey]

\* the attenuations main names: the time bound it uses and the two it suggests
TimeCheck == "check if time($date), $date <= 2100-03-30T19:00:10Z"
RepoCheck == "check if repo(\"repo:3\")"
ReadCheck == "check if operation($action, $repo), $action == \"action:read\""

AttenuateBiscuit(biscuitToken, blockTxt) ==
    [biscuitToken EXCEPT !.checks = @ \cup {blockTxt}]

\* the year of the time bound of TimeCheck; the clock is read in years
TimeLimit == 2100

(***************************************************************************)
(* authz: the authorizer CheckAuthz renders from its template, as the      *)
(* facts it states, and the rules and the policy evaluated over them.      *)
(***************************************************************************)
OperationKnown(operation) == operation \in {Membership, Read, Write}

\* variant of ActionStrOf with the names of Read and Write exchanged
ActionStrOfReadWriteSwapped(operation) ==
    CASE operation = Membership -> membershipStr
      [] operation = Read -> writeStr
      [] operation = Write -> readStr

\* the switch on operation
ActionStrOf(operation) ==
    CASE operation = Membership -> membershipStr
      [] operation = Read -> readStr
      [] operation = Write -> writeStr

\* variant of RepoRoleActions in which a reader may also write
RepoRoleActionsReaderWrites ==
    {<<namespaceRole(ownerRoleStr), buildRoleActions(<<membershipStr, writeStr, readStr>>)>>,
     <<namespaceRole(writerRoleStr), buildRoleActions(<<writeStr, readStr>>)>>,
     <<namespaceRole(readerRoleStr), buildRoleActions(<<writeStr, readStr>>)>>}

\* the facts repo_role_actions(role, [actions])
RepoRoleActions ==
    {<<namespaceRole(ownerRoleStr), buildRoleActions(<<membershipStr, writeStr, readStr>>)>>,
     <<namespaceRole(writerRoleStr), buildRoleActions(<<writeStr, readStr>>)>>,
     <<namespaceRole(readerRoleStr), buildRoleActions(<<readStr>>)>>}

AssignedRoleKnown(r) ==
    /\ r.UserOrGroup \in {UserUGR, UsergroupUGR}
    /\ r.RepoOrGroup \in {RepoUGR, RepogroupUGR}
    /\ r.RepoRole \in {OwnerRole, ReaderRole, WriterRole}

\* the three switches that build one role(...) fact
RoleFact(r) ==
    <<IF r.UserOrGroup = UserUGR THEN namespaceUser(r.UserOrGroupID)
                                 ELSE namespaceUG(r.UserOrGroupID),
      IF r.RepoOrGroup = RepoUGR THEN namespaceRepo(r.RepoOrGroupID)
                                 ELSE namespaceRG(r.RepoOrGroupID),
      CASE r.RepoRole = OwnerRole -> namespaceRole(ownerRoleStr)
        [] r.RepoRole = ReaderRole -> namespaceRole(readerRoleStr)
        [] r.RepoRole = WriterRole -> namespaceRole(writerRoleStr)>>

\* the facts of the rendered authorizer together with the token's authority facts
AuthorizerFacts(biscuitToken, reqDetails, operation, now) ==
    [user |-> biscuitToken.authority,
     repo_role_actions |-> RepoRoleActions,
     operation |-> {<<namespaceAction(ActionStrOf(operation)),
                      namespaceRepo(reqDetails.RepoId)>>},
     time |-> now,
     usergroup |->
         {<<namespaceUG(x.UsergroupId), namespaceUser(x.UserId)>> :
             x \in Range(reqDetails.UsergroupRelationships.UserInGroups)}
         \cup {<<namespaceUG(x.ParentUsergroupId), namespaceUG(x.ChildUsergroupId)>> :
             x \in Range(reqDetails.UsergroupRelationships.UserGroupInGroups)},
     repogroup |->
         {<<namespaceRG(x.RepogroupId), namespaceRepo(x.RepoId)>> :
             x \in Range(reqDetails.RepogroupRels)},
     role |-> {RoleFact(r) : r \in Range(reqDetails.AssignedRoles)}]

\* repo($repoid) <- operation($action, $repoid)
RepoRule(F) == {op[2] : op \in F.operation}

\* one round of the three user_authority rules over the pairs derived so far
UserAuthorityStep(F, derived) ==
    {<<m, m>> : m \in F.user}
    \cup {<<ug[2], ug[1]>> :
            ug \in {x \in F.usergroup :
                       StartsWith(x[2], namespaceAuthz(<<>>, userNS))}}
    \cup {<<x[1][1], x[2][2]>> :
            x \in {y \in derived \X F.usergroup :
                      /\ StartsWith(y[2][2], namespaceAuthz(<<>>, usergroupNS))
                      /\ y[1][2] = y[2][1]}}

RECURSIVE UserAuthorityFrom(_, _)
UserAuthorityFrom(F, derived) ==
    LET next == derived \cup UserAuthorityStep(F, derived)
    IN IF next = derived THEN derived ELSE UserAuthorityFrom(F, next)

\* the facts user_authority($member, $group) at the fixed point
UserAuthority(F) == UserAuthorityFrom(F, {})

\* repo_authority($member, $member) <- repo($member);
\* repo_authority($member, $group) <- repogroup($group, $member)
RepoAuthority(F) ==
    {<<m, m>> : m \in RepoRule(F)} \cup {<<rg[2], rg[1]>> : rg \in F.repogroup}

\* req_role($role, $action) <- operation($action, $repo),
\*   repo_role_actions($role, $permissions), $permissions.contains($action)
ReqRole(F) ==
    {<<x[2][1], x[1][1]>> :
        x \in {y \in F.operation \X F.repo_role_actions : y[1][1] \in y[2][2]}}

\* variant of AllowPolicy that asks for no role fact at all
AllowPolicyNoRole(F) ==
    \E user \in F.user, op \in F.operation, rr \in ReqRole(F) :
        rr[2] = op[1]

\* variant of AllowPolicy in which a reader role fact forbids the request
AllowPolicyUnlessReader(F) ==
    /\ AllowPolicyNoRole(F)
    /\ F.role # {}
    /\ \A rf \in F.role : rf[3] # namespaceRole(readerRoleStr)

\* the policy "allow if ...".  Each bound name is a variable of the policy
\* text: $userOrgroup and $repoOrgroup of the authority atoms, $userOrGroup
\* and $repoOrGroup of the role atom.
AllowPolicy(F) ==
    \E user \in F.user, op \in F.operation, rr \in ReqRole(F),
       ua \in UserAuthority(F), ra \in RepoAuthority(F), rf \in F.role :
        LET action == op[1]
            repo == op[2]
            role == rr[1]
            userOrgroup == ua[2]
            repoOrgroup == ra[2]
            userOrGroup == rf[1]
            repoOrGroup == rf[2]
        IN /\ rr[2] = action
           /\ ua[1] = user
           /\ ra[1] = repo
           /\ rf[3] = role

\* a check of an attenuation block, over the facts and the derived facts
CheckHolds(chk, F) ==
    CASE chk = TimeCheck -> F.time <= TimeLimit
      [] chk = RepoCheck -> <<"r", "e", "p", "o", ":", "3">> \in RepoRule(F)
      [] chk = ReadCheck ->
             \E op \in F.operation :
                 op[1] = <<"a", "c", "t", "i", "o", "n", ":", "r", "e", "a", "d">>
      [] OTHER -> FALSE

\* authorizer.Authorize(): nil exactly when every check holds and the allow
\* policy matches
Authorize(biscuitToken, F) ==
    IF \E chk \in biscuitToken.checks : ~CheckHolds(chk, F)
    THEN "failed checks"
    ELSE IF AllowPolicy(F) THEN Nil ELSE "no matching policy"

\* failures of the template and biscuit libraries that do not depend on the facts
LibFaults == {"none", "template", "parse", "runlimit"}

\* what a call of CheckAuthz does: a return (ret, err) or log.Fatalf
AuthzReturn(ret, err) == [ret |-> ret, err |-> err, fatal |-> FALSE]
AuthzFatal == [ret |-> FALSE, err |-> Nil, fatal |-> TRUE]

\* variant of CheckAuthz that drops the error of Authorize
CheckAuthzIgnoreAuthorizeError(biscuitToken, publicRoot, reqDetails, operation, now, fault) ==
    CASE ~OperationKnown(operation) -> AuthzFatal
      [] \E r \in Range(reqDetails.AssignedRoles) : ~AssignedRoleKnown(r) -> AuthzFatal
      [] fault = "template" -> AuthzReturn(FALSE, "error executing template")
      [] biscuitToken.signer # publicRoot ->
             AuthzReturn(FALSE, "error when verifying token and creating authorizer")
      [] fault = "parse" -> AuthzReturn(FALSE, "error when parsing authorizer")
      [] OTHER -> AuthzReturn(TRUE, Nil)

CheckAuthz(biscuitToken, publicRoot, reqDetails, operation, now, fault) ==
    CASE ~OperationKnown(operation) -> AuthzFatal
      [] \E r \in Range(reqDetails.AssignedRoles) : ~AssignedRoleKnown(r) -> AuthzFatal
      [] fault = "template" -> AuthzReturn(FALSE, "error executing template")
      [] biscuitToken.signer # publicRoot ->
             AuthzReturn(FALSE, "error when verifying token and creating authorizer")
      [] fault = "parse" -> AuthzReturn(FALSE, "error when parsing authorizer")
      [] fault = "runlimit" -> AuthzReturn(FALSE, "error in Authorize")
      [] Authorize(biscuitToken,
                   AuthorizerFacts(biscuitToken, reqDetails, operation, now)) # Nil ->
             AuthzReturn(FALSE, "error in Authorize")
      [] OTHER -> AuthzReturn(TRUE, Nil)

(***************************************************************************)
(* The read transaction.  sqlTx is a deferred SQLite transaction: its      *)
(* first statement fixes the content every later statement of it reads.    *)
(***************************************************************************)
\* variant of ViewOf for a query issued on the database handle, not on sqlTx
ViewOfLive(tx, snap, live) == live

\* the content and version a statement issued on sqlTx reads
ViewOf(tx, snap, live) == IF tx = "reading" THEN snap ELSE live

TxView == ViewOf(txState, snapshot, [db |-> store, version |-> writes])

\* variant of Proceeds that goes on after an error
ProceedsAlways(err) == TRUE

\* the test "if err != nil { sqlTx.Rollback(); return nil, ... }" of every step
Proceeds(err) == err = Nil

LocInit ==
    [username |-> "", usergroupRels |-> NoUsergroupRels, repoId |-> 0,
     repogroupRels |-> <<>>, assignedRoles |-> <<>>,
     queue |-> <<>>, table |-> <<>>]

GatherNotReturned == [details |-> NoDetails, isNil |-> TRUE, err |-> "not returned"]
NoToken == [authority |-> {}, checks |-> {}, signer |-> Nil]
NoCall == [operation |-> Membership, publicRoot |-> Nil, now |-> 0, fault |-> "none"]
AuthzNotReturned == [ret |-> FALSE, err |-> "not returned", fatal |-> FALSE]

LookupSteps ==
    <<"checkUserInDb", "getUsergroupsRecursive", "checkRepoInDb", "getRepogroupRels",
      "getUserRepoRoles", "getUsergroupRepoRoles", "getUserRepogroupRoles",
      "getUsergroupRepogroupRoles">>

\* a statement of the transaction: it reads TxView and is written to the log
Issue(query, ok) ==
    /\ txState \in {"open", "reading"}
    /\ snapshot' = TxView
    /\ txState' = "reading"
    /\ lookups' = Append(lookups, [query |-> query, ok |-> ok,
                                   version |-> TxView.version])

\* variant of RollbackAndReturn that returns the error with sqlTx left open
ReturnWithoutRollback(query, err) ==
    /\ snapshot' = TxView
    /\ lookups' = Append(lookups, [query |-> query, ok |-> FALSE,
                                   version |-> TxView.version])
    /\ gatherRet' = GatherError(err)
    /\ pc' = "GatherReturned"
    /\ UNCHANGED <<loc, txState, txEnds>>

\* sqlTx.Rollback(); return nil, fmt.Errorf(...)
RollbackAndReturn(query, err) ==
    /\ snapshot' = TxView
    /\ lookups' = Append(lookups, [query |-> query, ok |-> FALSE,
                                   version |-> TxView.version])
    /\ txState' = "rolledback"
    /\ txEnds' = txEnds + 1
    /\ gatherRet' = GatherError(err)
    /\ pc' = "GatherReturned"
    /\ UNCHANGED loc

\* one step of GatherRequestDetails: the lookup went through, and either its
\* result is an error or the locals are updated and the next step follows
Step(query, err, newLoc, nextPc) ==
    /\ pc = query
    /\ txState \in {"open", "reading"}
    /\ IF Proceeds(err)
       THEN /\ Issue(query, err = Nil)
            /\ loc' = newLoc
            /\ pc' = nextPc
            /\ UNCHANGED <<txEnds, gatherRet>>
       ELSE RollbackAndReturn(query, err)
    /\ UNCHANGED <<store, seenStores, req, token, call, authzRet, writes>>

BeginTx ==
    /\ pc = "BeginTx"
    /\ txState' = "open"
    /\ pc' = "checkUserInDb"
    /\ UNCHANGED <<store, snapshot, seenStores, txEnds, req, loc, lookups,
                   gatherRet, token, call, authzRet, writes>>

CheckUser ==
    LET r == checkUserInDb(req.userId, TxView.db)
    IN Step("checkUserInDb",
            IF r.err = Nil THEN Nil ELSE "error from checkUserInDb",
            [loc EXCEPT !.username = r.username],
            "getUsergroupsRecursive")

GetUsergroups ==
    Step("getUsergroupsRecursive", Nil,
         [loc EXCEPT !.usergroupRels = getUsergroupsRecursive(req.userId, TxView.db)],
         "checkRepoInDb")

CheckRepo ==
    LET r == checkRepoInDb(req.reponame, TxView.db)
    IN Step("checkRepoInDb",
            IF r.err = Nil THEN Nil ELSE "error from checkRepoInDb",
            [loc EXCEPT !.repoId = r.repoId],
            "getRepogroupRels")

GetRepogroupRels ==
    Step("getRepogroupRels", Nil,
         [loc EXCEPT !.repogroupRels = getRepogroupRels(loc.repoId, TxView.db)],
         "getUserRepoRoles")

\* one of the four lookups of getAssignedRoles
RoleStep(query, r, nextPc) ==
    Step(query,
         IF r.err = Nil THEN Nil ELSE "error from getAssignedRoles",
         [loc EXCEPT !.assignedRoles = @ \o r.roles],
         nextPc)

GetUserRepoRoles ==
    RoleStep("getUserRepoRoles",
             getUserRepoRoles(req.userId, loc.repoId, TxView.db),
             "getUsergroupRepoRoles")

\* variant of GetUsergroupRepoRoles that keeps the usergroup ids in a list,
\* one entry per relationship, and looks the roles up entry by entry
RECURSIVE UsergroupRepoRolesPerEntry(_, _, _)
UsergroupRepoRolesPerEntry(ids, repoId, db) ==
    IF ids = <<>> THEN [roles |-> <<>>, err |-> Nil]
    ELSE LET h == getUsergroupRepoRoles(repoId, {Head(ids)}, db)
             t == UsergroupRepoRolesPerEntry(Tail(ids), repoId, db)
         IN CASE h.err # Nil -> h
              [] t.err # Nil -> t
              [] OTHER -> [roles |-> h.roles \o t.roles, err |-> Nil]

GetUsergroupRepoRolesPerEntry ==
    RoleStep("getUsergroupRepoRoles",
             UsergroupRepoRolesPerEntry(
                 [i \in DOMAIN loc.usergroupRels.UserInGroups |->
                     loc.usergroupRels.UserInGroups[i].UsergroupId]
                 \o [i \in DOMAIN loc.usergroupRels.UserGroupInGroups |->
                     loc.usergroupRels.UserGroupInGroups[i].ChildUsergroupId],
                 loc.repoId, TxView.db),
             "getUserRepogroupRoles")

GetUsergroupRepoRoles ==
    RoleStep("getUsergroupRepoRoles",
             getUsergroupRepoRoles(loc.repoId, usergroupIds(loc.usergroupRels),
                                   TxView.db),
             "getUserRepogroupRoles")

GetUserRepogroupRoles ==
    RoleStep("getUserRepogroupRoles",
             getUserRepogroupRoles(req.userId, repogroupIds(loc.repogroupRels),
                                   TxView.db),
             "getUsergroupRepogroupRoles")

GetUsergroupRepogroupRoles ==
    RoleStep("getUsergroupRepogroupRoles",
             getUsergroupRepogroupRoles(usergroupIds(loc.usergroupRels),
                                        repogroupIds(loc.repogroupRels), TxView.db),
             "Commit")

\* variant of Commit whose transaction also stores a membership row
CommitWithWrite ==
    /\ pc = "Commit"
    /\ txState \in {"open", "reading"}
    /\ txState' = "committed"
    /\ txEnds' = txEnds + 1
    /\ gatherRet' =
          [details |->
              [UserId |-> req.userId, Username |-> loc.username,
               UsergroupRelationships |-> loc.usergroupRels,
               RepoId |-> loc.repoId, RepoName |-> req.reponame,
               RepogroupRels |-> loc.repogroupRels,
               AssignedRoles |-> loc.assignedRoles],
           isNil |-> FALSE, err |-> Nil]
    /\ store' = InsertRow(store, [tbl |-> "UserGroup_membership_users",
                                  row |-> [usergroup_id |-> 2, user_id |-> 1]])
    /\ pc' = "GatherReturned"
    /\ UNCHANGED <<snapshot, seenStores, req, loc, lookups, token, call,
                   authzRet, writes>>

\* err = sqlTx.Commit(); return reqDetails, nil
Commit ==
    /\ pc = "Commit"
    /\ txState \in {"open", "reading"}
    /\ txState' = "committed"
    /\ txEnds' = txEnds + 1
    /\ gatherRet' =
          [details |->
              [UserId |-> req.userId, Username |-> loc.username,
               UsergroupRelationships |-> loc.usergroupRels,
               RepoId |-> loc.repoId, RepoName |-> req.reponame,
               RepogroupRels |-> loc.repogroupRels,
               AssignedRoles |-> loc.assignedRoles],
           isNil |-> FALSE, err |-> Nil]
    /\ pc' = "GatherReturned"
    /\ UNCHANGED <<store, snapshot, seenStores, req, loc, lookups, token, call,
                   authzRet, writes>>

\* the store fails under the query the request is about to issue
StoreFault ==
    /\ pc \in Range(LookupSteps)
    /\ txState \in {"open", "reading"}
    /\ RollbackAndReturn(pc, "error from " \o pc)
    /\ UNCHANGED <<store, seenStores, req, token, call, authzRet, writes>>

\* BeginTx fails: return nil, err, with no transaction made
BeginTxFault ==
    /\ pc = "BeginTx"
    /\ gatherRet' = GatherError("error when making Tx")
    /\ pc' = "GatherReturned"
    /\ UNCHANGED <<store, snapshot, seenStores, txState, txEnds, req, loc,
                   lookups, token, call, authzRet, writes>>

\* Commit fails: the transaction is over all the same, and nil, err is returned
CommitFault ==
    /\ pc = "Commit"
    /\ txState \in {"open", "reading"}
    /\ txState' = "rolledback"
    /\ txEnds' = txEnds + 1
    /\ gatherRet' = GatherError("error when cleaning up sqlite Tx")
    /\ pc' = "GatherReturned"
    /\ UNCHANGED <<store, snapshot, seenStores, req, loc, lookups, token, call,
                   authzRet, writes>>

(***************************************************************************)
(* main: the caller of GatherRequestDetails and CheckAuthz.                *)
(***************************************************************************)
\* "if err != nil { log.Fatalf(...) }"
MainStops(err) == err # Nil

MainGatherFatal ==
    /\ pc = "GatherReturned"
    /\ MainStops(gatherRet.err)
    /\ pc' = "exit"
    /\ UNCHANGED <<store, snapshot, seenStores, txState, txEnds, req, loc,
                   lookups, gatherRet, token, call, authzRet, writes>>

\* IssueToken, then AttenuateBiscuit with one of the attenuations (Nil: none)
MainIssueToken(attenuations) ==
    /\ pc = "GatherReturned"
    /\ ~MainStops(gatherRet.err)
    /\ \E att \in attenuations :
          token' = IF att = Nil THEN IssueToken(req.userId)
                   ELSE AttenuateBiscuit(IssueToken(req.userId), att)
    /\ pc' = "CheckAuthz"
    /\ UNCHANGED <<store, snapshot, seenStores, txState, txEnds, req, loc,
                   lookups, gatherRet, call, authzRet, writes>>

\* the call of CheckAuthz and main's handling of what it returns
CallCheckAuthz(operations, roots, clocks, faults) ==
    /\ pc = "CheckAuthz"
    /\ \E operation \in operations, publicRoot \in roots, now \in clocks,
          fault \in faults :
          LET r == CheckAuthz(token, publicRoot, gatherRet.details, operation,
                              now, fault)
          IN /\ call' = [operation |-> operation, publicRoot |-> publicRoot,
                         now |-> now, fault |-> fault]
             /\ authzRet' = r
             /\ pc' = IF r.fatal \/ MainStops(r.err) THEN "exit" ELSE "done"
    /\ UNCHANGED <<store, snapshot, seenStores, txState, txEnds, req, loc,
                   lookups, gatherRet, token, writes>>

(***************************************************************************)
(* A concurrent writer on another connection commits an INSERT or a DELETE *)
(* while the request is between BeginTx and its return.                    *)
(***************************************************************************)
\* the rows a writer touches: those of RowPool the example data holds, which
\* it deletes, and those that name user 4, which it inserts
WriterRows ==
    {r \in RowPool :
        \/ r.row \in ExampleStore[r.tbl]
        \/ "user_id" \in DOMAIN r.row /\ r.row.user_id = 4}

WriterCommit ==
    /\ pc \in {"BeginTx", "Commit"} \cup Range(LookupSteps)
    /\ writes < MaxWrites
    /\ \E r \in WriterRows :
          LET new == IF r.row \in store[r.tbl] THEN DeleteRow(store, r)
                                               ELSE InsertRow(store, r)
          IN /\ ForeignKeysHold(new)
             /\ store' = new
             /\ seenStores' = seenStores \cup {new}
    /\ writes' = writes + 1
    /\ UNCHANGED <<snapshot, txState, txEnds, pc, req, loc, lookups, gatherRet,
                   token, call, authzRet>>

(***************************************************************************)
(* The recursive query of getUsergroupsRecursive run one extracted row at  *)
(* a time, on its own.                                                     *)
(***************************************************************************)
CteSeed ==
    /\ pc = "cteSeed"
    /\ loc' = [loc EXCEPT !.queue = SeqOf(CteInitial(req.userId, store)),
                          !.table = <<>>]
    /\ pc' = "cteLoop"
    /\ UNCHANGED <<store, snapshot, seenStores, txState, txEnds, req, lookups,
                   gatherRet, token, call, authzRet, writes>>

CteStep ==
    /\ pc = "cteLoop"
    /\ loc.queue # <<>>
    /\ loc' = [loc EXCEPT
                  !.queue = Tail(@) \o CteProduced(Head(loc.queue), loc.queue,
                                                   loc.table, store),
                  !.table = Append(@, Head(loc.queue))]
    /\ UNCHANGED <<store, snapshot, seenStores, txState, txEnds, pc, req,
                   lookups, gatherRet, token, call, authzRet, writes>>

CteScan ==
    /\ pc = "cteLoop"
    /\ loc.queue = <<>>
    /\ loc' = [loc EXCEPT !.usergroupRels = ScanUsergroupRows(req.userId, loc.table)]
    /\ pc' = "cteDone"
    /\ UNCHANGED <<store, snapshot, seenStores, txState, txEnds, req, lookups,
                   gatherRet, token, call, authzRet, writes>>

(***************************************************************************)
(* Initial states and specifications.                                      *)
(***************************************************************************)
\* the requests made: existing and missing users and repos
Requests ==
    {[userId |-> 1, reponame |-> "Alpha"], [userId |-> 1, reponame |-> "Charlie"],
     [userId |-> 1, reponame |-> "Bravo"], [userId |-> 4, reponame |-> "Bravo"],
     [userId |-> 4, reponame |-> "Charlie"], [userId |-> 2, reponame |-> "Charlie"],
     [userId |-> 9, reponame |-> "Bravo"], [userId |-> 4, reponame |-> "Delta"]}

\* the stores Init draws: the example data, and every store of at most MaxRows
\* relationship rows of RowPool that satisfies the foreign keys
Stores ==
    {ExampleStore}
    \cup {db \in {InsertRows(EmptyStore, S) :
                    S \in {T \in SUBSET RowPool : Cardinality(T) <= MaxRows}} :
             ForeignKeysHold(db)}

\* the example data with an owner label added to repogroup_roles_enum and
\* user 1 made owner of repogroup 1
OwnerOnRepogroupStore ==
    InsertRows(ExampleStore,
        {[tbl |-> "repogroup_roles_enum", row |-> [id |-> 3, rolename |-> "owner"]],
         [tbl |-> "RepoGroup_Roles_membership_Users",
          row |-> [repogroup_id |-> 1, user_id |-> 1, repogroup_role |-> 3]]})

InitAt(stores, requests, start) ==
    /\ store \in stores
    /\ snapshot = [db |-> store, version |-> 0]
    /\ seenStores = {store}
    /\ txState = "none"
    /\ txEnds = 0
    /\ pc = start
    /\ req \in requests
    /\ loc = LocInit
    /\ lookups = <<>>
    /\ gatherRet = GatherNotReturned
    /\ token = NoToken
    /\ call = NoCall
    /\ authzRet = AuthzNotReturned
    /\ writes = 0

Gather ==
    \/ BeginTx
    \/ CheckUser
    \/ GetUsergroups
    \/ CheckRepo
    \/ GetRepogroupRels
    \/ GetUserRepoRoles
    \/ GetUsergroupRepoRoles
    \/ GetUserRepogroupRoles
    \/ GetUsergroupRepogroupRoles
    \/ Commit
    \/ MainGatherFatal

\* the failures of the store itself, at any statement of the transaction
Faults ==
    \/ StoreFault
    \/ BeginTxFault
    \/ CommitFault

\* decision requests against every store of Stores, one request at a time
Init == InitAt(Stores, Requests, "BeginTx")

Next ==
    \/ Gather
    \/ MainIssueToken({Nil, TimeCheck})
    \/ CallCheckAuthz({Membership, Read, Write}, {IssuerKey}, {2026}, {"none"})

Spec == Init /\ [][Next]_vars

\* a decision request against the example data while a writer commits
InitConc == InitAt({ExampleStore, OwnerOnRepogroupStore}, Requests, "BeginTx")

NextConc ==
    \/ Gather
    \/ Faults
    \/ WriterCommit
    \/ MainIssueToken({Nil, TimeCheck, RepoCheck, ReadCheck})
    \/ CallCheckAuthz({Membership, Read, Write}, {IssuerKey, OtherKey}, {2026, 2101},
                      LibFaults)

SpecConc == InitConc /\ [][NextConc]_vars

\* the recursive query alone, for user 4, over every store of direct
\* memberships and at most MaxEdges nesting edges among the three usergroups
UsergroupIds == {1, 2, 3}

ClosureStores ==
    {[EmptyStore EXCEPT !.UserGroup_membership_users = M,
                        !.UserGroup_membership_usergroups = E] :
        M \in SUBSET ({[usergroup_id |-> g, user_id |-> 4] : g \in UsergroupIds}
                      \cup {[usergroup_id |-> 3, user_id |-> 5]}),
        E \in {X \in SUBSET {[usergroup_id |-> g, child_usergroup_id |-> h] :
                                g \in UsergroupIds, h \in UsergroupIds} :
                  Cardinality(X) <= MaxEdges}}

InitClosure ==
    InitAt(ClosureStores, {[userId |-> 4, reponame |-> "Bravo"]}, "cteSeed")

NextClosure ==
    \/ CteSeed
    \/ CteStep
    \/ CteScan

SpecClosure == InitClosure /\ [][NextClosure]_vars

\* CheckAuthz alone, on tokens and RequestDetails of any origin: the lists
\* of the RequestDetails hold at most MaxFacts of these entries
AuthzEntries ==
    {[list |-> "UserInGroups", e |-> [UserId |-> 4, UsergroupId |-> 1]],
     [list |-> "UserInGroups", e |-> [UserId |-> 1, UsergroupId |-> 2]],
     [list |-> "UserGroupInGroups",
      e |-> [ParentUsergroupId |-> 1, ChildUsergroupId |-> 2]],
     [list |-> "RepogroupRels", e |-> [RepogroupId |-> 1, RepoId |-> 2]],
     [list |-> "AssignedRoles",
      e |-> [UserOrGroup |-> UserUGR, UserOrGroupID |-> 4,
             RepoOrGroup |-> RepoUGR, RepoOrGroupID |-> 2, RepoRole |-> ReaderRole]],
     [list |-> "AssignedRoles",
      e |-> [UserOrGroup |-> UsergroupUGR, UserOrGroupID |-> 2,
             RepoOrGroup |-> RepogroupUGR, RepoOrGroupID |-> 1, RepoRole |-> WriterRole]],
     [list |-> "AssignedRoles",
      e |-> [UserOrGroup |-> UserUGR, UserOrGroupID |-> 1,
             RepoOrGroup |-> RepoUGR, RepoOrGroupID |-> 3, RepoRole |-> OwnerRole]],
     [list |-> "AssignedRoles",
      e |-> [UserOrGroup |-> UsergroupUGR, UserOrGroupID |-> 3,
             RepoOrGroup |-> RepoUGR, RepoOrGroupID |-> 2, RepoRole |-> OwnerRole]],
     [list |-> "AssignedRoles",
      e |-> [UserOrGroup |-> UndefUGR, UserOrGroupID |-> 4,
             RepoOrGroup |-> RepoUGR, RepoOrGroupID |-> 2, RepoRole |-> ReaderRole]]}

ListOf(entries, list) == SeqOf({x.e : x \in {y \in entries : y.list = list}})

DetailsOf(entries) ==
    [UserId |-> 4, Username |-> "Liam",
     UsergroupRelationships |->
         [UserInGroups |-> ListOf(entries, "UserInGroups"),
          UserGroupInGroups |-> ListOf(entries, "UserGroupInGroups")],
     RepoId |-> 2, RepoName |-> "Bravo",
     RepogroupRels |-> ListOf(entries, "RepogroupRels"),
     AssignedRoles |-> ListOf(entries, "AssignedRoles")]

AuthzTokens ==
    {[authority |-> a, checks |-> c, signer |-> k] :
        a \in {{}, IssueToken(4).authority, IssueToken(1).authority},
        c \in {{}, {TimeCheck}, {ReadCheck}},
        k \in {IssuerKey, OtherKey}}

InitAuthz ==
    /\ store = ExampleStore
    /\ snapshot = [db |-> store, version |-> 0]
    /\ seenStores = {store}
    /\ txState = "none"
    /\ txEnds = 0
    /\ pc = "CheckAuthz"
    /\ req = [userId |-> 4, reponame |-> "Bravo"]
    /\ loc = LocInit
    /\ lookups = <<>>
    /\ \E entries \in {X \in SUBSET AuthzEntries : Cardinality(X) <= MaxFacts} :
          gatherRet = [details |-> DetailsOf(entries), isNil |-> FALSE, err |-> Nil]
    /\ token \in AuthzTokens
    /\ call = NoCall
    /\ authzRet = AuthzNotReturned
    /\ writes = 0

NextAuthz == CallCheckAuthz({Membership, Read, Write, 3}, {IssuerKey}, {2026, 2101}, LibFaults)

SpecAuthz == InitAuthz /\ [][NextAuthz]_vars

(***************************************************************************)
(* Reference notions the properties are stated with: the closure as a set  *)
(* fixed point, the relevant assignments as a set comprehension over the   *)
(* stored rows, and the role -> action table of the design.                *)
(***************************************************************************)
RECURSIVE RefGrow(_, _)
RefGrow(groups, edges) ==
    LET more == groups \cup {e.child_usergroup_id :
                                e \in {x \in edges : x.usergroup_id \in groups}}
    IN IF more = groups THEN groups ELSE RefGrow(more, edges)

\* the groups of a user: the direct memberships and every group below them
RefClosure(userId, db) ==
    RefGrow({m.usergroup_id :
                m \in {x \in db.UserGroup_membership_users : x.user_id = userId}},
            db.UserGroup_membership_usergroups)

RefRepogroups(repoId, db) ==
    {m.repogroup_id : m \in {x \in db.RepoGroup_membership : x.repo_id = repoId}}

RefRole(label) ==
    CASE label = "owner" -> OwnerRole
      [] label = "reader" -> ReaderRole
      [] label = "writer" -> WriterRole
      [] OTHER -> UnknownRole

RefLabel(enum, id) == (CHOOSE e \in enum : e.id = id).rolename

RefAssigned(ug, ugId, rg, rgId, role) ==
    [UserOrGroup |-> ug, UserOrGroupID |-> ugId, RepoOrGroup |-> rg,
     RepoOrGroupID |-> rgId, RepoRole |-> role]

\* every stored role assignment, of the four shapes
RefStored(db) ==
    {RefAssigned(UserUGR, r.user_id, RepoUGR, r.repo_id,
                 RefRole(RefLabel(db.repo_roles_enum, r.repo_role))) :
        r \in db.Repo_Roles_membership_Users}
    \cup {RefAssigned(UsergroupUGR, r.usergroup_id, RepoUGR, r.repo_id,
                      RefRole(RefLabel(db.repo_roles_enum, r.repo_role))) :
        r \in db.Repo_Roles_membership_UserGroups}
    \cup {RefAssigned(UserUGR, r.user_id, RepogroupUGR, r.repogroup_id,
                      RefRole(RefLabel(db.repogroup_roles_enum, r.repogroup_role))) :
        r \in db.RepoGroup_Roles_membership_Users}
    \cup {RefAssigned(UsergroupUGR, r.usergroup_id, RepogroupUGR, r.repogroup_id,
                      RefRole(RefLabel(db.repogroup_roles_enum, r.repogroup_role))) :
        r \in db.RepoGroup_Roles_membership_Usergroup}

RefPrincipalMatches(a, userId, groups) ==
    \/ a.UserOrGroup = UserUGR /\ a.UserOrGroupID = userId
    \/ a.UserOrGroup = UsergroupUGR /\ a.UserOrGroupID \in groups

RefResourceMatches(a, repoId, repogroups) ==
    \/ a.RepoOrGroup = RepoUGR /\ a.RepoOrGroupID = repoId
    \/ a.RepoOrGroup = RepogroupUGR /\ a.RepoOrGroupID \in repogroups

\* the stored assignments relevant to a user and a repo
RefRelevant(userId, repoId, db) ==
    {a \in RefStored(db) :
        /\ RefPrincipalMatches(a, userId, RefClosure(userId, db))
        /\ RefResourceMatches(a, repoId, RefRepogroups(repoId, db))}

\* Owner: membership, write, read; Writer: write, read; Reader: read
RefPermits(role, operation) ==
    \/ role = OwnerRole /\ operation \in {Membership, Write, Read}
    \/ role = WriterRole /\ operation \in {Write, Read}
    \/ role = ReaderRole /\ operation = Read

RefRepoIds(reponame, db) == {r.id : r \in {x \in db.Repos : x.reponame = reponame}}

\* the decision rule over the stored assignments
RefAllow(userId, reponame, operation, db) ==
    \E repoId \in RefRepoIds(reponame, db) :
        \E a \in RefRelevant(userId, repoId, db) : RefPermits(a.RepoRole, operation)

CheckAuthzCalled == call.publicRoot # Nil

RolesLookedUp ==
    \/ pc = "Commit"
    \/ pc \in {"GatherReturned", "CheckAuthz", "done", "exit"} /\ gatherRet.err = Nil

(***************************************************************************)
(* C1.  End to end, with an unattenuated token issued for the requesting   *)
(* user: CheckAuthz on the result of GatherRequestDetails allows exactly   *)
(* when some stored assignment relevant to the user and the repo has a     *)
(* role that permits the requested action.                                 *)
(***************************************************************************)
C1_EndToEndDecision ==
    (CheckAuthzCalled /\ token.checks = {})
        => (authzRet.ret <=> RefAllow(req.userId, req.reponame, call.operation, store))

\* an allow that rests on a role of a nested usergroup on a repogroup alone,
\* while the store holds an assignment that is not relevant
C1_Witness ==
    /\ CheckAuthzCalled
    /\ token.checks = {}
    /\ authzRet.ret
    /\ gatherRet.details.AssignedRoles # <<>>
    /\ \A a \in Range(gatherRet.details.AssignedRoles) :
           /\ a.UserOrGroup = UsergroupUGR
           /\ a.RepoOrGroup = RepogroupUGR
           /\ a.UserOrGroupID \notin
                  usergroupIdsDirectOnly(gatherRet.details.UsergroupRelationships)

(***************************************************************************)
(* C3.  When the four role lookups have gone through, the assignments      *)
(* gathered are exactly the stored assignments whose principal is the user *)
(* or a usergroup of the user's closure and whose resource is the repo or  *)
(* a repogroup that contains it.                                           *)
(***************************************************************************)
C3_AssignedRolesAreTheRelevant ==
    RolesLookedUp
        => Range(loc.assignedRoles) = RefRelevant(req.userId, loc.repoId, store)

\* a role of a nested usergroup is returned and a stored assignment is left out
C3_Witness ==
    /\ RolesLookedUp
    /\ \E a \in Range(loc.assignedRoles) :
           /\ a.UserOrGroup = UsergroupUGR
           /\ a.UserOrGroupID \notin usergroupIdsDirectOnly(loc.usergroupRels)
    /\ RefStored(store) \ Range(loc.assignedRoles) # {}

(***************************************************************************)
(* C5.  With no stored assignment relevant to the user and the repo, the   *)
(* verdict is deny for membership, write and read; Olivia reading Alpha in *)
(* the example data is denied.                                             *)
(***************************************************************************)
C5_DefaultDeny ==
    (CheckAuthzCalled /\ ~(\E repoId \in RefRepoIds(req.reponame, store) :
                              RefRelevant(req.userId, repoId, store) # {}))
        => ~authzRet.ret

C5_Witness ==
    /\ CheckAuthzCalled
    /\ store = ExampleStore
    /\ req = [userId |-> 1, reponame |-> "Alpha"]
    /\ call.operation = Read
    /\ RefRelevant(1, 1, store) = {}
    /\ ~authzRet.ret

(***************************************************************************)
(* The reference rule over a token and a RequestDetails of any origin.     *)
(***************************************************************************)
\* the user ids the authority block of a token states
RefTokenUsers(biscuitToken) ==
    {u \in 0..9 : namespaceUser(u) \in biscuitToken.authority}

\* the usergroups reachable from a user through the usergroup entries
RefDetailsClosure(userId, reqDetails) ==
    RefGrow({x.UsergroupId :
                x \in {y \in Range(reqDetails.UsergroupRelationships.UserInGroups) :
                          y.UserId = userId}},
            {[usergroup_id |-> x.ParentUsergroupId,
              child_usergroup_id |-> x.ChildUsergroupId] :
                x \in Range(reqDetails.UsergroupRelationships.UserGroupInGroups)})

\* the repogroups that contain the requested repo
RefDetailsRepogroups(reqDetails) ==
    {x.RepogroupId : x \in {y \in Range(reqDetails.RepogroupRels) :
                               y.RepoId = reqDetails.RepoId}}

\* the role entries whose principal and resource are reachable
RefDetailsReachable(biscuitToken, reqDetails) ==
    {a \in Range(reqDetails.AssignedRoles) :
        /\ \E u \in RefTokenUsers(biscuitToken) :
               RefPrincipalMatches(a, u, RefDetailsClosure(u, reqDetails))
        /\ RefResourceMatches(a, reqDetails.RepoId, RefDetailsRepogroups(reqDetails))}

RefDetailsAllow(biscuitToken, reqDetails, operation) ==
    \E a \in RefDetailsReachable(biscuitToken, reqDetails) :
        RefPermits(a.RepoRole, operation)

\* CheckAuthz ran the evaluator: no fatal exit, no library failure, a token
\* that verifies
EvaluatorRan ==
    /\ CheckAuthzCalled
    /\ ~authzRet.fatal
    /\ call.fault = "none"
    /\ token.signer = call.publicRoot

(***************************************************************************)
(* C2.  For every token and every RequestDetails handed to CheckAuthz, the *)
(* evaluator allows exactly when some role entry has a principal that is   *)
(* the token's user or a usergroup reachable from that user, a resource    *)
(* that is the requested repo or a repogroup containing it, and a role     *)
(* that permits the requested action; a role entry that is not reachable   *)
(* in this way never justifies an allow.                                   *)
(***************************************************************************)
C2_EvaluatorMatchesReference ==
    (EvaluatorRan /\ token.checks = {})
        => (authzRet.ret <=>
                RefDetailsAllow(token, gatherRet.details, call.operation))

\* one direction of C2 does hold: a reachable role entry that permits the
\* action is always honoured
C2_ReachableRoleAllows ==
    (EvaluatorRan /\ token.checks = {}
        /\ RefDetailsAllow(token, gatherRet.details, call.operation))
        => authzRet.ret

\* an allow although no role entry is reachable from the token's user
C2_UnreachableRoleAllowed ==
    /\ EvaluatorRan
    /\ token.checks = {}
    /\ authzRet.ret
    /\ RefDetailsReachable(token, gatherRet.details) = {}

(***************************************************************************)
(* C4.  With nesting edges that form a cycle reachable from the user's     *)
(* direct memberships, the recursive query stops: no row is queued twice,  *)
(* so the rows extracted and queued never outnumber the user's direct      *)
(* memberships plus the stored edges, and every extraction moves one row   *)
(* from the queue to the result.  The usergroups returned are the finite   *)
(* set reachable from the direct memberships; when the edges are the cycle *)
(* A -> B, B -> A and the user is in A or B only, they are {A, B}.         *)
(***************************************************************************)
C4_ClosureTerminatesOnCycles ==
    LET rows == loc.table \o loc.queue
        edges == store.UserGroup_membership_usergroups
        returned == usergroupIds(loc.usergroupRels)
    IN /\ \A i, j \in 1..Len(rows) : rows[i] = rows[j] => i = j
       /\ Len(rows) <= Cardinality(CteInitial(req.userId, store)) + Cardinality(edges)
       /\ pc = "cteDone" =>
             /\ loc.queue = <<>>
             /\ returned = RefClosure(req.userId, store)
             /\ \A A, B \in UsergroupIds :
                    (/\ A # B
                     /\ edges = {[usergroup_id |-> A, child_usergroup_id |-> B],
                                 [usergroup_id |-> B, child_usergroup_id |-> A]}
                     /\ CteInitial(req.userId, store) # {}
                     /\ \A r \in CteInitial(req.userId, store) :
                            r.usergroup_id \in {A, B})
                        => returned = {A, B}

\* the query has ended on the cycle 1 -> 2, 2 -> 1 with the user in group 1
C4_Witness ==
    /\ pc = "cteDone"
    /\ store.UserGroup_membership_usergroups =
          {[usergroup_id |-> 1, child_usergroup_id |-> 2],
           [usergroup_id |-> 2, child_usergroup_id |-> 1]}
    /\ {m.usergroup_id : m \in {x \in store.UserGroup_membership_users :
                                   x.user_id = req.userId}} = {1}
    /\ Len(loc.table) = 3
    /\ usergroupIds(loc.usergroupRels) = {1, 2}

(***************************************************************************)
(* C6.  No error path yields an allow.  CheckAuthz returns true only when  *)
(* GatherRequestDetails returned details without an error, the template    *)
(* was executed, the token verified against the public root, the           *)
(* authorizer was parsed and Authorize returned nil; whenever it returns   *)
(* false it returns an error with it; and a request whose                  *)
(* GatherRequestDetails failed never reaches CheckAuthz.                   *)
(***************************************************************************)
C6_NoErrorPathAllows ==
    /\ authzRet.ret =>
          /\ CheckAuthzCalled
          /\ gatherRet.err = Nil
          /\ ~gatherRet.isNil
          /\ call.fault = "none"
          /\ token.signer = call.publicRoot
          /\ Authorize(token, AuthorizerFacts(token, gatherRet.details,
                                              call.operation, call.now)) = Nil
          /\ authzRet.err = Nil
    /\ (CheckAuthzCalled /\ ~authzRet.fatal /\ ~authzRet.ret) => authzRet.err # Nil
    /\ (gatherRet.err # Nil \/ gatherRet.isNil) => (~CheckAuthzCalled /\ ~authzRet.ret)

\* the authorizer could not be parsed for a request the stored assignments
\* would allow: false and an error are returned
C6_Witness ==
    /\ CheckAuthzCalled
    /\ call.fault = "parse"
    /\ token.checks = {}
    /\ token.signer = call.publicRoot
    /\ RefAllow(req.userId, req.reponame, call.operation, snapshot.db)
    /\ ~authzRet.ret
    /\ authzRet.err # Nil

\* the stored repogroup-scoped assignments relevant to the request whose
\* role label is owner
RefOwnerOnRepogroup(userId, reponame, db) ==
    {a \in UNION {RefRelevant(userId, repoId, db) :
                     repoId \in RefRepoIds(reponame, db)} :
        a.RepoOrGroup = RepogroupUGR /\ a.RepoRole = OwnerRole}

GatherHasReturned == pc \in {"GatherReturned", "CheckAuthz", "done", "exit"}

(***************************************************************************)
(* C7.  When a stored repogroup-scoped assignment relevant to the request  *)
(* (user-repogroup or usergroup-repogroup) carries the label owner,        *)
(* GatherRequestDetails returns nil and the error of getAssignedRoles, and *)
(* neither a token is issued nor CheckAuthz called; no owner role on a     *)
(* repogroup is ever among the assignments gathered.                       *)
(***************************************************************************)
C7_OwnerOnRepogroupRejected ==
    /\ \A a \in Range(loc.assignedRoles) \cup Range(gatherRet.details.AssignedRoles) :
           ~(a.RepoOrGroup = RepogroupUGR /\ a.RepoRole = OwnerRole)
    /\ (GatherHasReturned /\ RefOwnerOnRepogroup(req.userId, req.reponame, store) # {})
          => /\ gatherRet.isNil
             /\ gatherRet.err = "error from getAssignedRoles"
             /\ lookups[Len(lookups)].query \in
                    {"getUserRepogroupRoles", "getUsergroupRepogroupRoles"}
             /\ ~lookups[Len(lookups)].ok
             /\ ~CheckAuthzCalled
             /\ token = NoToken
             /\ ~authzRet.ret

\* main has exited on the error of an owner label of a usergroup on a
\* repogroup
C7_Witness ==
    /\ pc = "exit"
    /\ \E a \in RefOwnerOnRepogroup(req.userId, req.reponame, store) :
           a.UserOrGroup = UsergroupUGR
    /\ lookups[Len(lookups)].query = "getUsergroupRepogroupRoles"
    /\ gatherRet.isNil
    /\ gatherRet.err = "error from getAssignedRoles"

(***************************************************************************)
(* C8.  All lookups of one request read the same content of the store:     *)
(* every logged lookup read the same committed version, and the            *)
(* RequestDetails returned are what GatherRequestDetails yields against    *)
(* one single committed content, whatever a writer commits between two     *)
(* lookups.                                                                *)
(***************************************************************************)
C8_OneSnapshotPerRequest ==
    /\ \A i, j \in 1..Len(lookups) : lookups[i].version = lookups[j].version
    /\ (GatherHasReturned /\ gatherRet.err = Nil)
          => /\ snapshot.db \in seenStores
             /\ \A i \in 1..Len(lookups) : lookups[i].version = snapshot.version
             /\ gatherRet = GatherRequestDetails(req.userId, req.reponame, snapshot.db)

\* a writer committed after the first lookup a change that would alter the
\* result, and the request returned the result of the content before it
C8_Witness ==
    /\ GatherHasReturned
    /\ gatherRet.err = Nil
    /\ writes = 1
    /\ snapshot.version = 0
    /\ store # snapshot.db
    /\ GatherRequestDetails(req.userId, req.reponame, store).details.AssignedRoles
           # gatherRet.details.AssignedRoles
    /\ GatherRequestDetails(req.userId, req.reponame, store).details.UsergroupRelationships
           # gatherRet.details.UsergroupRelationships

(***************************************************************************)
(* C9.  A deny is a successful outcome: when the template was executed,    *)
(* the token verified, the authorizer was parsed and the evaluator ran to  *)
(* its end, a verdict of deny is returned without an error.                *)
(***************************************************************************)
C9_DenyIsNotAnError ==
    (EvaluatorRan /\ ~authzRet.ret) => authzRet.err = Nil

\* Olivia reading Alpha in the example data with an unattenuated token: the
\* evaluator ran, no assignment justifies the request, and CheckAuthz
\* returned false with an error, on which main exits
C9_DenyReportedAsError ==
    /\ EvaluatorRan
    /\ store = ExampleStore
    /\ req = [userId |-> 1, reponame |-> "Alpha"]
    /\ token = IssueToken(1)
    /\ call.operation = Read
    /\ gatherRet.details.AssignedRoles = <<>>
    /\ authzRet = AuthzReturn(FALSE, "error in Authorize")
    /\ pc = "exit"

(***************************************************************************)
(* C10.  When a step of GatherRequestDetails fails, no later lookup is     *)
(* issued and the failed lookup is not issued again: the lookups are       *)
(* issued in the order of the steps, each at most once, and only the last  *)
(* one may have failed; after a failed lookup the transaction is rolled    *)
(* back, nil and an error are returned, no token is issued and CheckAuthz  *)
(* is not called.                                                          *)
(***************************************************************************)
C10_ErrorAbortsRequest ==
    /\ Len(lookups) <= Len(LookupSteps)
    /\ \A i \in 1..Len(lookups) :
           /\ lookups[i].query = LookupSteps[i]
           /\ i < Len(lookups) => lookups[i].ok
    /\ (lookups # <<>> /\ ~lookups[Len(lookups)].ok)
          => /\ pc \in {"GatherReturned", "exit"}
             /\ txState = "rolledback"
             /\ txEnds = 1
             /\ gatherRet.isNil
             /\ gatherRet.err # Nil
             /\ token = NoToken
             /\ ~CheckAuthzCalled
             /\ authzRet = AuthzNotReturned

\* the decoding of an owner label on a repogroup failed in the seventh
\* lookup, after the first role lookup had returned a role
C10_Witness ==
    /\ pc = "exit"
    /\ Len(lookups) = 7
    /\ lookups[7].query = "getUserRepogroupRoles"
    /\ ~lookups[7].ok
    /\ loc.assignedRoles # <<>>
    /\ gatherRet = GatherError("error from getAssignedRoles")
    /\ RefOwnerOnRepogroup(req.userId, req.reponame, snapshot.db) # {}

(***************************************************************************)
(* C11.  When the requested repo name is not in the store, the request     *)
(* fails with an error and the closure query of the user is never issued   *)
(* in it: the repo lookup comes before the closure lookup.                 *)
(***************************************************************************)
C11_NoClosureForMissingRepo ==
    (GatherHasReturned /\ RefRepoIds(req.reponame, store) = {})
        => /\ gatherRet.isNil
           /\ gatherRet.err # Nil
           /\ \A i \in 1..Len(lookups) : lookups[i].query # "getUsergroupsRecursive"

\* Liam asking for the missing repo Delta in the example data: the closure
\* query ran and returned his groups before the repo lookup failed
C11_ClosureBeforeRepoLookup ==
    /\ pc = "exit"
    /\ store = ExampleStore
    /\ req = [userId |-> 4, reponame |-> "Delta"]
    /\ Len(lookups) = 3
    /\ lookups[2] = [query |-> "getUsergroupsRecursive", ok |-> TRUE, version |-> 0]
    /\ lookups[3] = [query |-> "checkRepoInDb", ok |-> FALSE, version |-> 0]
    /\ usergroupIds(loc.usergroupRels) = {1, 2, 3}
    /\ gatherRet = GatherError("error from checkRepoInDb")

(***************************************************************************)
(* A whole run of main as one step, and a writer that adds one role        *)
(* assignment between two runs of the same request.                        *)
(***************************************************************************)
\* largest number of rows of RowPool added to a store before the first run
MaxBaseRows == 2

\* what main computes for a request against a content of the store
Decide(userId, reponame, operation, db) ==
    LET g == GatherRequestDetails(userId, reponame, db)
        biscuitToken == AttenuateBiscuit(IssueToken(userId), TimeCheck)
    IN IF MainStops(g.err)
       THEN [gather |-> g, token |-> NoToken, called |-> FALSE,
             authz |-> AuthzNotReturned]
       ELSE [gather |-> g, token |-> biscuitToken, called |-> TRUE,
             authz |-> CheckAuthz(biscuitToken, IssuerKey, g.details, operation,
                                  2026, "none")]

\* main from GatherRequestDetails to the return of CheckAuthz; the action
\* requested is call.operation
MainRun ==
    /\ pc \in {"main", "mainAgain"}
    /\ LET d == Decide(req.userId, req.reponame, call.operation, store)
       IN /\ gatherRet' = d.gather
          /\ token' = d.token
          /\ call' = [call EXCEPT !.publicRoot = IF d.called THEN IssuerKey ELSE Nil,
                                  !.now = IF d.called THEN 2026 ELSE 0]
          /\ authzRet' = d.authz
    /\ pc' = IF pc = "main" THEN "decided" ELSE "decidedAgain"
    /\ UNCHANGED <<store, snapshot, seenStores, txState, txEnds, req, loc,
                   lookups, writes>>

RoleTables ==
    {"Repo_Roles_membership_Users", "Repo_Roles_membership_UserGroups",
     "RepoGroup_Roles_membership_Users", "RepoGroup_Roles_membership_Usergroup"}

\* INSERT of one row into one of the four role tables
AddRoleAssignment ==
    /\ pc = "decided"
    /\ \E r \in {x \in RowPool : x.tbl \in RoleTables} :
          /\ r.row \notin store[r.tbl]
          /\ ForeignKeysHold(InsertRow(store, r))
          /\ store' = InsertRow(store, r)
          /\ seenStores' = seenStores \cup {InsertRow(store, r)}
    /\ pc' = "mainAgain"
    /\ UNCHANGED <<snapshot, txState, txEnds, req, loc, lookups, gatherRet,
                   token, call, authzRet, writes>>

MonoStores ==
    {db \in {InsertRows(base, S) :
                base \in {EmptyStore, ExampleStore},
                S \in {T \in SUBSET RowPool : Cardinality(T) <= MaxBaseRows}} :
        ForeignKeysHold(db)}

MonoRequests ==
    {[userId |-> 1, reponame |-> "Charlie"], [userId |-> 1, reponame |-> "Bravo"],
     [userId |-> 4, reponame |-> "Bravo"], [userId |-> 4, reponame |-> "Charlie"]}

InitMono ==
    /\ store \in MonoStores
    /\ snapshot = [db |-> store, version |-> 0]
    /\ seenStores = {store}
    /\ txState = "none"
    /\ txEnds = 0
    /\ pc = "main"
    /\ req \in MonoRequests
    /\ loc = LocInit
    /\ lookups = <<>>
    /\ gatherRet = GatherNotReturned
    /\ token = NoToken
    /\ \E operation \in {Membership, Read, Write} :
          call = [NoCall EXCEPT !.operation = operation]
    /\ authzRet = AuthzNotReturned
    /\ writes = 0

NextMono ==
    \/ MainRun
    \/ AddRoleAssignment

SpecMono == InitMono /\ [][NextMono]_vars

\* the verdict main computed for the request against an earlier content
AllowedBefore ==
    \E old \in seenStores \ {store} :
        Decide(req.userId, req.reponame, call.operation, old).authz.ret

(***************************************************************************)
(* C12.  Adding one role assignment to the store never turns an allow for  *)
(* a request into anything else: a request allowed before the addition is  *)
(* allowed after it.                                                       *)
(***************************************************************************)
C12_AddedRoleKeepsAllow ==
    (pc = "decidedAgain" /\ AllowedBefore) => authzRet.ret

(***************************************************************************)
(* C12, amended.  A request allowed before the addition is allowed after   *)
(* it unless the added assignment is an owner role on a repogroup relevant *)
(* to the request; then GatherRequestDetails fails, no verdict is computed *)
(* and the request ends with an error.                                     *)
(***************************************************************************)
C12_AddedDecodableRoleKeepsAllow ==
    (pc = "decidedAgain" /\ AllowedBefore)
        => IF RefOwnerOnRepogroup(req.userId, req.reponame, store) = {}
           THEN authzRet.ret /\ authzRet.err = Nil
           ELSE /\ gatherRet.isNil
                /\ gatherRet.err = "error from getAssignedRoles"
                /\ ~CheckAuthzCalled
                /\ ~authzRet.ret

\* a request allowed before stays allowed after a role was added, and the
\* gathered assignments grew by the added one
C12_Witness ==
    /\ pc = "decidedAgain"
    /\ AllowedBefore
    /\ authzRet.ret
    /\ \E old \in seenStores \ {store} :
           Len(GatherRequestDetails(req.userId, req.reponame, old).details.AssignedRoles)
               < Len(gatherRet.details.AssignedRoles)

(***************************************************************************)
(* The recursive query run again after a writer added nesting edges.       *)
(***************************************************************************)
\* INSERT of one row into UserGroup_membership_usergroups
AddNestingEdge ==
    /\ pc = "cteDone"
    /\ writes < MaxWrites
    /\ \E g \in UsergroupIds, h \in UsergroupIds :
          LET r == [tbl |-> "UserGroup_membership_usergroups",
                    row |-> [usergroup_id |-> g, child_usergroup_id |-> h]]
          IN /\ r.row \notin store[r.tbl]
             /\ store' = InsertRow(store, r)
             /\ seenStores' = seenStores \cup {InsertRow(store, r)}
    /\ writes' = writes + 1
    /\ pc' = "cteSeed"
    /\ UNCHANGED <<snapshot, txState, txEnds, req, loc, lookups, gatherRet,
                   token, call, authzRet>>

InitGrow ==
    InitAt({db \in ClosureStores :
               Cardinality(db.UserGroup_membership_usergroups) <= MaxBaseRows},
           {[userId |-> 4, reponame |-> "Bravo"]}, "cteSeed")

NextGrow ==
    \/ CteSeed
    \/ CteStep
    \/ CteScan
    \/ AddNestingEdge

SpecGrow == InitGrow /\ [][NextGrow]_vars

(***************************************************************************)
(* C13.  Adding a nesting edge never removes a group from a user's         *)
(* closure: the groups getUsergroupsRecursive returns after the addition   *)
(* include the groups it returns against every earlier content, with the   *)
(* same direct memberships and no returned edge lost.                      *)
(***************************************************************************)
C13_ClosureMonotone ==
    pc = "cteDone" =>
        \A old \in seenStores :
            LET before == getUsergroupsRecursive(req.userId, old)
            IN /\ usergroupIds(before) \subseteq usergroupIds(loc.usergroupRels)
               /\ Range(before.UserInGroups) = Range(loc.usergroupRels.UserInGroups)
               /\ Range(before.UserGroupInGroups)
                      \subseteq Range(loc.usergroupRels.UserGroupInGroups)

\* the edge added made the closure grow by a group, and the groups returned
\* before are still returned
C13_Witness ==
    /\ pc = "cteDone"
    /\ writes = 1
    /\ \E old \in seenStores :
           LET before == usergroupIds(getUsergroupsRecursive(req.userId, old))
           IN /\ Cardinality(before) = 2
              /\ before \subseteq usergroupIds(loc.usergroupRels)
              /\ Cardinality(usergroupIds(loc.usergroupRels)) = 3

(***************************************************************************)
(* C14.  A decision request never writes to the store: every step of       *)
(* GatherRequestDetails, of main and of CheckAuthz, whether it goes        *)
(* through, fails or returns an error, leaves every table as it was; the   *)
(* store changes only in a step in which a writer on another connection    *)
(* commits.                                                                *)
(***************************************************************************)
C14_RequestNeverWrites == [][writes' = writes => store' = store]_vars

\* a request went from BeginTx to its verdict with no writer about, and the
\* store is the one it started with
C14_Witness ==
    /\ pc = "done"
    /\ authzRet.ret
    /\ txState = "committed"
    /\ Len(lookups) = 8
    /\ writes = 0
    /\ seenStores = {store}

(***************************************************************************)
(* C15.  With the example data, Noah's request for write on Charlie finds  *)
(* the direct assignment User:Noah -> Repo:Charlie:Owner and is allowed.   *)
(***************************************************************************)
C15_NoahOwnerOfCharlie ==
    (/\ store = ExampleStore
     /\ req = [userId |-> 2, reponame |-> "Charlie"]
     /\ CheckAuthzCalled
     /\ call.operation = Write)
    => /\ RefAssigned(UserUGR, 2, RepoUGR, 3, OwnerRole)
              \in Range(gatherRet.details.AssignedRoles)
       /\ authzRet.ret

(***************************************************************************)
(* C15, as the example data has it.  The owner of Charlie is Olivia        *)
(* (user 1) and Noah (user 2) is its reader: Noah's request gathers the    *)
(* one assignment User:Noah -> Repo:Charlie:Reader, his read is allowed    *)
(* and his write is not; Olivia's request gathers the one assignment       *)
(* User:Olivia -> Repo:Charlie:Owner and her write is allowed.             *)
(***************************************************************************)
C15_NoahReaderOliviaOwnerOfCharlie ==
    (store = ExampleStore /\ req.reponame = "Charlie" /\ req.userId \in {1, 2}
       /\ GatherHasReturned)
    => /\ gatherRet.err = Nil
       /\ Range(gatherRet.details.AssignedRoles) =
             {RefAssigned(UserUGR, req.userId, RepoUGR, 3,
                          IF req.userId = 1 THEN OwnerRole ELSE ReaderRole)}
       /\ CheckAuthzCalled =>
             /\ authzRet.ret <=> (req.userId = 1 \/ call.operation = Read)
             /\ authzRet.ret => authzRet.err = Nil

\* Noah asked for write on Charlie with the example data, his reader role was
\* gathered and the request was not allowed
C15_Witness ==
    /\ store = ExampleStore
    /\ req = [userId |-> 2, reponame |-> "Charlie"]
    /\ CheckAuthzCalled
    /\ call.operation = Write
    /\ Range(gatherRet.details.AssignedRoles) =
          {RefAssigned(UserUGR, 2, RepoUGR, 3, ReaderRole)}
    /\ ~authzRet.ret

(***************************************************************************)
(* C16.  With the example data, Liam's request for read on Bravo resolves  *)
(* a closure that includes FooOps and BarOps, finds the assignment         *)
(* BarOps -> Foo:Writer and is allowed.                                    *)
(***************************************************************************)
C16_LiamThroughBarOps ==
    (/\ store = ExampleStore
     /\ req = [userId |-> 4, reponame |-> "Bravo"]
     /\ CheckAuthzCalled
     /\ call.operation = Read)
    => /\ {1, 2} \subseteq usergroupIds(gatherRet.details.UsergroupRelationships)
       /\ RefAssigned(UsergroupUGR, 2, RepogroupUGR, 1, WriterRole)
              \in Range(gatherRet.details.AssignedRoles)
       /\ authzRet.ret

(***************************************************************************)
(* C16, as the example data has it.  The writer role on repogroup Foo      *)
(* belongs to FooOps (usergroup 1), of which Liam is a direct member:      *)
(* Liam's request on Bravo resolves the closure {FooOps, BarOps, BazOps}   *)
(* with the one direct membership in FooOps, finds Bravo in repogroup Foo, *)
(* gathers the one assignment FooOps -> Foo:Writer, and his read is        *)
(* allowed.                                                                *)
(***************************************************************************)
C16_LiamThroughFooOps ==
    (store = ExampleStore /\ req = [userId |-> 4, reponame |-> "Bravo"]
       /\ GatherHasReturned)
    => /\ gatherRet.err = Nil
       /\ usergroupIds(gatherRet.details.UsergroupRelationships) = {1, 2, 3}
       /\ Range(gatherRet.details.UsergroupRelationships.UserInGroups) =
             {[UserId |-> 4, UsergroupId |-> 1]}
       /\ repogroupIds(gatherRet.details.RepogroupRels) = {1}
       /\ Range(gatherRet.details.AssignedRoles) =
             {RefAssigned(UsergroupUGR, 1, RepogroupUGR, 1, WriterRole)}
       /\ (CheckAuthzCalled /\ call.operation = Read) =>
             authzRet.ret /\ authzRet.err = Nil

\* Liam's read on Bravo was allowed with the example data, and the role
\* gathered is the one of FooOps
C16_Witness ==
    /\ store = ExampleStore
    /\ req = [userId |-> 4, reponame |-> "Bravo"]
    /\ pc = "done"
    /\ call.operation = Read
    /\ authzRet.ret
    /\ {1, 2} \subseteq usergroupIds(gatherRet.details.UsergroupRelationships)
    /\ \E i \in DOMAIN gatherRet.details.AssignedRoles :
          /\ gatherRet.details.AssignedRoles[i].UserOrGroupID = 1
          /\ gatherRet.details.AssignedRoles[i].RepoRole = WriterRole

\* the terms of the permission table, spelled out
RefRoleTerm(role) ==
    CASE role = OwnerRole -> <<"r", "o", "l", "e", ":", "o", "w", "n", "e", "r">>
      [] role = WriterRole -> <<"r", "o", "l", "e", ":", "w", "r", "i", "t", "e", "r">>
      [] role = ReaderRole -> <<"r", "o", "l", "e", ":", "r", "e", "a", "d", "e", "r">>

RefActionTerm(operation) ==
    CASE operation = Membership ->
             <<"a", "c", "t", "i", "o", "n", ":",
               "m", "e", "m", "b", "e", "r", "s", "h", "i", "p">>
      [] operation = Write -> <<"a", "c", "t", "i", "o", "n", ":", "w", "r", "i", "t", "e">>
      [] operation = Read -> <<"a", "c", "t", "i", "o", "n", ":", "r", "e", "a", "d">>

(***************************************************************************)
(* C17.  Whatever the store and the request, the repo_role_actions facts   *)
(* handed to the evaluator are the same three: owner with exactly          *)
(* membership, write and read, writer with exactly write and read, reader  *)
(* with exactly read; and the operation fact names the action of the       *)
(* requested Action value.                                                 *)
(***************************************************************************)
C17_StaticPermissionTable ==
    (CheckAuthzCalled /\ ~authzRet.fatal) =>
        LET F == AuthorizerFacts(token, gatherRet.details, call.operation, call.now)
        IN /\ F.repo_role_actions =
                 {<<RefRoleTerm(role),
                    {RefActionTerm(operation) :
                        operation \in {o \in {Membership, Read, Write} :
                                          RefPermits(role, o)}}>> :
                     role \in {OwnerRole, WriterRole, ReaderRole}}
           /\ Cardinality(F.repo_role_actions) = 3
           /\ {op[1] : op \in F.operation} = {RefActionTerm(call.operation)}

\* CheckAuthz was called for membership by an owner: the operation fact names
\* action:membership, which only the owner entry of the table lists
C17_Witness ==
    /\ pc = "done"
    /\ call.operation = Membership
    /\ authzRet.ret
    /\ store # ExampleStore
    /\ LET F == AuthorizerFacts(token, gatherRet.details, call.operation, call.now)
       IN /\ \E op \in F.operation : op[1] = RefActionTerm(Membership)
          /\ {ra[1] : ra \in {x \in F.repo_role_actions :
                                 RefActionTerm(Membership) \in x[2]}}
                = {RefRoleTerm(OwnerRole)}

\* the groups linked to a set of groups by nesting edges taken in either
\* direction, to the fixed point
RECURSIVE RefGrowEither(_, _)
RefGrowEither(groups, edges) ==
    LET more == groups
                \cup {e.child_usergroup_id :
                         e \in {x \in edges : x.usergroup_id \in groups}}
                \cup {e.usergroup_id :
                         e \in {x \in edges : x.child_usergroup_id \in groups}}
    IN IF more = groups THEN groups ELSE RefGrowEither(more, edges)

RefDirectGroups(userId, db) ==
    {m.usergroup_id : m \in {x \in db.UserGroup_membership_users : x.user_id = userId}}

(***************************************************************************)
(* C18.  The closure is the fixed point of following nesting edges in      *)
(* either direction from the user's direct memberships; a direct member    *)
(* only of a child group also has that group's parent in the closure.      *)
(***************************************************************************)
C18_ClosureEitherDirection ==
    pc = "cteDone" =>
        usergroupIds(loc.usergroupRels) =
            RefGrowEither(RefDirectGroups(req.userId, store),
                          store.UserGroup_membership_usergroups)

(***************************************************************************)
(* C18, as the query computes it.  The closure is the fixed point of       *)
(* following nesting edges from parent to child only: a group is in it     *)
(* exactly when it is a direct membership of the user or the child of an   *)
(* edge whose parent is in it.  A parent is never reached from its child:  *)
(* every group of the either-direction fixed point that the closure lacks  *)
(* is outside the direct memberships and is no child of a group of the     *)
(* closure.                                                                *)
(***************************************************************************)
C18_ClosureParentToChild ==
    pc = "cteDone" =>
        LET edges == store.UserGroup_membership_usergroups
            direct == RefDirectGroups(req.userId, store)
            returned == usergroupIds(loc.usergroupRels)
        IN /\ \A g \in UsergroupIds :
                  g \in returned <=>
                      \/ g \in direct
                      \/ \E e \in edges : e.usergroup_id \in returned
                                          /\ e.child_usergroup_id = g
           /\ returned = RefGrow(direct, edges)
           /\ returned \subseteq RefGrowEither(direct, edges)
           /\ \A g \in RefGrowEither(direct, edges) \ returned :
                  /\ g \notin direct
                  /\ \A e \in edges : e.child_usergroup_id = g
                                         => e.usergroup_id \notin returned

\* the user is a direct member only of group 2, the child of group 1: the
\* closure returned is group 2 alone
C18_Witness ==
    /\ pc = "cteDone"
    /\ RefDirectGroups(req.userId, store) = {2}
    /\ store.UserGroup_membership_usergroups =
          {[usergroup_id |-> 1, child_usergroup_id |-> 2]}
    /\ usergroupIds(loc.usergroupRels) = {2}
    /\ 1 \in RefGrowEither({2}, store.UserGroup_membership_usergroups)

(***************************************************************************)
(* C19.  getUsergroupsRecursive returns two lists without repetition:      *)
(* UserInGroups holds exactly the stored direct memberships of the         *)
(* requested user, each carrying that user's id; UserGroupInGroups holds   *)
(* exactly the stored nesting edges whose parent is a direct group or      *)
(* below one through parent-to-child edges.  The parent of every returned  *)
(* edge is a direct group or the child of another returned edge, and the   *)
(* groups of the role lookups are the direct groups and the groups below   *)
(* them.                                                                   *)
(***************************************************************************)
C19_PartitionedResult ==
    pc = "cteDone" =>
        LET edges == store.UserGroup_membership_usergroups
            direct == RefDirectGroups(req.userId, store)
            members == loc.usergroupRels.UserInGroups
            nested == loc.usergroupRels.UserGroupInGroups
        IN /\ Range(members) =
                 {[UserId |-> req.userId, UsergroupId |-> g] : g \in direct}
           /\ Len(members) = Cardinality(direct)
           /\ Range(nested) =
                 {[ParentUsergroupId |-> e.usergroup_id,
                   ChildUsergroupId |-> e.child_usergroup_id] :
                     e \in {x \in edges : x.usergroup_id \in RefGrow(direct, edges)}}
           /\ Len(nested) = Cardinality(Range(nested))
           /\ \A i \in DOMAIN nested :
                 \/ nested[i].ParentUsergroupId \in direct
                 \/ \E j \in DOMAIN nested :
                       /\ j # i
                       /\ nested[j].ChildUsergroupId = nested[i].ParentUsergroupId
           /\ usergroupIds(loc.usergroupRels) =
                 direct \cup {nested[i].ChildUsergroupId : i \in DOMAIN nested}
           /\ usergroupIds(loc.usergroupRels) = RefGrow(direct, edges)

\* user 4 is a direct member of group 2 alone, with the edges 1 -> 2 and
\* 2 -> 3 stored and another user's membership beside: one membership and the
\* one edge 2 -> 3 are returned
C19_Witness ==
    /\ pc = "cteDone"
    /\ store.UserGroup_membership_users =
          {[usergroup_id |-> 2, user_id |-> 4], [usergroup_id |-> 3, user_id |-> 5]}
    /\ store.UserGroup_membership_usergroups =
          {[usergroup_id |-> 1, child_usergroup_id |-> 2],
           [usergroup_id |-> 2, child_usergroup_id |-> 3]}
    /\ loc.usergroupRels.UserInGroups = <<[UserId |-> 4, UsergroupId |-> 2]>>
    /\ loc.usergroupRels.UserGroupInGroups =
          <<[ParentUsergroupId |-> 2, ChildUsergroupId |-> 3]>>

(***************************************************************************)
(* C20.  When CheckAuthz is given an Action value outside Membership,      *)
(* Read, Write, or an assigned role with an unrecognized UserOrGroup,      *)
(* RepoOrGroup or RepoRole tag, it returns false and an error to its       *)
(* caller; it does not end the process.                                    *)
(***************************************************************************)
C20_UnknownEnumIsAnError ==
    (/\ CheckAuthzCalled
     /\ \/ ~OperationKnown(call.operation)
        \/ \E r \in Range(gatherRet.details.AssignedRoles) : ~AssignedRoleKnown(r))
    => /\ ~authzRet.fatal
       /\ ~authzRet.ret
       /\ authzRet.err # Nil

\* CheckAuthz was called with an Action value that is none of the three and
\* with recognized role tags only, and the process ended inside the call
C20_UnknownEnumIsFatal ==
    /\ CheckAuthzCalled
    /\ ~OperationKnown(call.operation)
    /\ \A r \in Range(gatherRet.details.AssignedRoles) : AssignedRoleKnown(r)
    /\ authzRet = AuthzFatal
    /\ pc = "exit"

(***************************************************************************)
(* C21.  The usergroup ids and the repogroup ids of the IN lists are sets: *)
(* a group named by several relationships (the child of more than one      *)
(* returned edge, or a direct membership that is also a child) is looked   *)
(* up once, and when the four role lookups have gone through every stored  *)
(* relevant assignment is in the gathered list exactly once.               *)
(***************************************************************************)
C21_EachAssignmentOnce ==
    RolesLookedUp =>
        LET roles == loc.assignedRoles
            relevant == RefRelevant(req.userId, loc.repoId, store)
        IN /\ \A i, j \in DOMAIN roles : roles[i] = roles[j] => i = j
           /\ Len(roles) = Cardinality(relevant)
           /\ \A a \in relevant :
                  Cardinality({i \in DOMAIN roles : roles[i] = a}) = 1
           /\ Cardinality(usergroupIds(loc.usergroupRels))
                  <= Len(loc.usergroupRels.UserInGroups)
                     + Len(loc.usergroupRels.UserGroupInGroups)
           /\ Cardinality(repogroupIds(loc.repogroupRels)) = Len(loc.repogroupRels)

\* a usergroup is a direct membership and also the child of a returned edge,
\* and its role on the repo was gathered once
C21_Witness ==
    /\ RolesLookedUp
    /\ \E i \in DOMAIN loc.usergroupRels.UserInGroups,
          j \in DOMAIN loc.usergroupRels.UserGroupInGroups :
          LET g == loc.usergroupRels.UserInGroups[i].UsergroupId
          IN /\ loc.usergroupRels.UserGroupInGroups[j].ChildUsergroupId = g
             /\ Cardinality({k \in DOMAIN loc.assignedRoles :
                                /\ loc.assignedRoles[k].UserOrGroup = UsergroupUGR
                                /\ loc.assignedRoles[k].UserOrGroupID = g}) = 1

\* largest id for which the namespaced identifiers are compared
MaxId == 11

\* the namespaced identifiers of users, usergroups, repos and repogroups are
\* pairwise distinct, and the prefixes the user_authority rules test with
\* starts_with tell a user from a usergroup
NamesPairwiseDistinct ==
    \A i, j \in 0..MaxId :
        /\ namespaceUser(i) # namespaceUG(j)
        /\ namespaceUser(i) # namespaceRepo(j)
        /\ namespaceUser(i) # namespaceRG(j)
        /\ namespaceUG(i) # namespaceRepo(j)
        /\ namespaceUG(i) # namespaceRG(j)
        /\ namespaceRepo(i) # namespaceRG(j)
        /\ i # j => /\ namespaceUser(i) # namespaceUser(j)
                    /\ namespaceUG(i) # namespaceUG(j)
                    /\ namespaceRepo(i) # namespaceRepo(j)
                    /\ namespaceRG(i) # namespaceRG(j)
        /\ StartsWith(namespaceUser(i), namespaceAuthz(<<>>, userNS))
        /\ StartsWith(namespaceUG(i), namespaceAuthz(<<>>, usergroupNS))
        /\ ~StartsWith(namespaceUG(i), namespaceAuthz(<<>>, userNS))
        /\ ~StartsWith(namespaceUser(i), namespaceAuthz(<<>>, usergroupNS))

\* a stored assignment names the usergroup with the user's number, or the
\* repogroup with the repo's number
RefSameNumber(userId, repoId, db) ==
    {a \in RefStored(db) :
        \/ a.UserOrGroup = UsergroupUGR /\ a.UserOrGroupID = userId
        \/ a.RepoOrGroup = RepogroupUGR /\ a.RepoOrGroupID = repoId}

(***************************************************************************)
(* C22.  Identifiers of different kinds never collide: the terms of user   *)
(* i, usergroup j, repo i and repogroup j are pairwise distinct, also for  *)
(* i = j.  In the facts of a request no role fact of a usergroup carries   *)
(* a user's term and none of a repogroup carries a repo's term, the        *)
(* user_authority facts give the user no term of another user, and an      *)
(* assignment stored for usergroup N or repogroup N does not make a        *)
(* request of user N, or on repo N, allowed when no stored assignment is   *)
(* relevant to the request.                                                *)
(***************************************************************************)
C22_NamespacesNeverCollide ==
    /\ NamesPairwiseDistinct
    /\ CheckAuthzCalled =>
          LET F == AuthorizerFacts(token, gatherRet.details, call.operation,
                                   call.now)
              users == {namespaceUser(i) : i \in 0..MaxId}
              repos == {namespaceRepo(i) : i \in 0..MaxId}
          IN /\ \A r \in Range(gatherRet.details.AssignedRoles) :
                    /\ r.UserOrGroup = UsergroupUGR => RoleFact(r)[1] \notin users
                    /\ r.UserOrGroup = UserUGR => RoleFact(r)[1] \in F.user
                    /\ r.RepoOrGroup = RepogroupUGR => RoleFact(r)[2] \notin repos
                    /\ r.RepoOrGroup = RepoUGR => RoleFact(r)[2] \in RepoRule(F)
             /\ \A ua \in UserAuthority(F) : ua[2] \in users => ua[2] = ua[1]
             /\ \A ra \in RepoAuthority(F) : ra[2] \in repos => ra[2] = ra[1]
             /\ (/\ RefSameNumber(req.userId, loc.repoId, store) # {}
                 /\ RefRelevant(req.userId, loc.repoId, store) = {})
                => ~authzRet.ret

\* Olivia (user 1) asks for read on Bravo with the example data, where FooOps
\* (usergroup 1) is writer on the repogroup of Bravo and Olivia is in no
\* group: the request is not allowed
C22_Witness ==
    /\ CheckAuthzCalled
    /\ store = ExampleStore
    /\ req = [userId |-> 1, reponame |-> "Bravo"]
    /\ call.operation = Read
    /\ RefAssigned(UsergroupUGR, 1, RepogroupUGR, 1, WriterRole)
           \in RefSameNumber(req.userId, loc.repoId, store)
    /\ namespaceUser(1) \in token.authority
    /\ ~authzRet.ret

(***************************************************************************)
(* C23.  Every AssignedRole gathered, and every one in a RequestDetails    *)
(* that GatherRequestDetails returned, is well formed: the principal tag   *)
(* is User or Usergroup, the resource tag is Repo or Repogroup, the role   *)
(* is Owner, Reader or Writer, and it is Owner only on a Repo.  A user     *)
(* entry names the requesting user and a repo entry the requested repo.    *)
(***************************************************************************)
C23_AssignedRolesWellFormed ==
    \A a \in Range(loc.assignedRoles) \cup Range(gatherRet.details.AssignedRoles) :
        /\ a.UserOrGroup \in {UserUGR, UsergroupUGR}
        /\ a.UserOrGroup # UndefUGR
        /\ a.RepoOrGroup \in {RepoUGR, RepogroupUGR}
        /\ a.RepoOrGroup # UndefRGR
        /\ a.RepoRole \in {OwnerRole, ReaderRole, WriterRole}
        /\ a.RepoRole # UnknownRole
        /\ a.RepoRole = OwnerRole => a.RepoOrGroup = RepoUGR
        /\ a.UserOrGroup = UserUGR => a.UserOrGroupID = req.userId
        /\ a.RepoOrGroup = RepoUGR => a.RepoOrGroupID = loc.repoId

\* a RequestDetails was returned that holds an owner role of the user and an
\* owner role of a nested usergroup, both on the repo
C23_Witness ==
    /\ GatherHasReturned
    /\ gatherRet.err = Nil
    /\ \E a, b \in Range(gatherRet.details.AssignedRoles) :
          /\ a.UserOrGroup = UserUGR
          /\ a.RepoRole = OwnerRole
          /\ a.RepoOrGroup = RepoUGR
          /\ b.UserOrGroup = UsergroupUGR
          /\ b.RepoRole = OwnerRole
          /\ b.RepoOrGroup = RepoUGR

(***************************************************************************)
(* C24.  A GatherRequestDetails that began its transaction ends it exactly *)
(* once, and not before it returns: while it runs the transaction is open  *)
(* and has not ended; once it has returned the transaction has ended once, *)
(* by Commit when details are returned after the eight lookups went        *)
(* through, by Rollback when a lookup failed, and never by both.  A        *)
(* request whose BeginTx failed has no transaction to end.                 *)
(***************************************************************************)
C24_TransactionEndsOnce ==
    /\ txEnds <= 1
    /\ txState \in {"open", "reading"} => (txEnds = 0 /\ ~GatherHasReturned)
    /\ ~GatherHasReturned => (txEnds = 0 /\ txState \in {"none", "open", "reading"})
    /\ (GatherHasReturned /\ gatherRet.err = "error when making Tx")
          => (txState = "none" /\ txEnds = 0 /\ lookups = <<>>)
    /\ (GatherHasReturned /\ gatherRet.err # "error when making Tx")
          => /\ txEnds = 1
             /\ txState \in {"committed", "rolledback"}
             /\ txState = "committed" <=> gatherRet.err = Nil
             /\ txState = "committed"
                   => /\ Len(lookups) = Len(LookupSteps)
                      /\ \A i \in 1..Len(lookups) : lookups[i].ok
             /\ (txState = "rolledback"
                   /\ gatherRet.err # "error when cleaning up sqlite Tx")
                   => /\ lookups # <<>>
                      /\ ~lookups[Len(lookups)].ok

\* the third lookup failed: the transaction was rolled back, once, in the
\* step that returned the error of checkRepoInDb
C24_Witness ==
    /\ pc = "exit"
    /\ Len(lookups) = 3
    /\ ~lookups[3].ok
    /\ gatherRet.err = "error from checkRepoInDb"
    /\ txState = "rolledback"
    /\ txEnds = 1
    /\ writes = 1

====
